---- MODULE Spec2Model ----
(***************************************************************************)
(* ig2rss: the adaptive priority polling scheduler (posts and stories) and *)
(* the resilient operation executor of the Instagram client.               *)
(*                                                                         *)
(* Time is the wall clock in hours.  A datetime is an integer number of    *)
(* hours; an optional value is the empty sequence (Python None) or a       *)
(* one-element sequence.  timedelta.days is the floor of hours / 24.       *)
(***************************************************************************)
EXTENDS Integers, Sequences, FiniteSets, TLC

VARIABLES
    now,               \* datetime.now(), in hours
    account_activity,  \* table account_activity: user_id -> row
    initialized,       \* sync_metadata['initialized'] = 'true'
    current_cycle,     \* AccountPollingManager.current_cycle (= sync_metadata['cycle_number'])
    runs,              \* how many times _smart_polling_sync has been entered
    following_cache,   \* table following_accounts: user_id -> row
    jobs,              \* the scheduler's jobs: job id -> the run of _smart_polling_sync in it
    story_activity,    \* table account_story_activity: user_id -> row
    story_cycle,       \* StoryPollingManager.current_cycle (= sync_metadata['story_cycle_number'])
    last_mute_refresh, \* sync_metadata['last_mute_refresh']
    is_authenticated,  \* InstagramClient._is_authenticated
    reauth_attempts,   \* InstagramClient._reauth_attempts
    reauth_successes,  \* InstagramClient._reauth_successes
    reauth_failures,   \* InstagramClient._reauth_failures
    call,              \* the _retry_with_backoff call in progress, or the last one
    last_call          \* the most recent call, its arguments and what it returned

postVars == <<account_activity, initialized, current_cycle, runs>>
storyVars == <<story_activity, story_cycle, last_mute_refresh>>
clientVars == <<is_authenticated, reauth_attempts, reauth_successes, reauth_failures, call>>
vars == <<now, postVars, following_cache, jobs, storyVars, clientVars, last_call>>

----------------------------------------------------------------------------
(* Bounds of the model *)

MaxTicks == 2          \* the clock advances at most this many times
MaxCycle == 12         \* increment_cycle is applied up to this cycle number
MaxConsecutive == 1    \* cap of consecutive_no_new_posts
MaxCap == 2            \* largest max_accounts passed to a selection
MaxProbePosts == 1     \* posts fetched by one probe of a cold start
MaxConsecutiveStories == 10 \* cap of consecutive_no_new_stories
MaxStoriesFetched == 1 \* cap of stories_fetched_count
MaxRetries == 3        \* largest max_retries of an executor call (the constructor sets 3)
MaxReauthAttempts == 2 \* no executor call starts once _reauth_attempts has reached this
MaxColdStartRuns == 3  \* no cold-start run or failed first login once runs has reached this

----------------------------------------------------------------------------
(* Configuration: the defaults of AccountPollingManager.__init__ *)

priority_high_days == 7
priority_normal_days == 30
priority_low_days == 180
poll_high_every_n == 1
poll_normal_every_n == 1
poll_low_every_n == 3
poll_dormant_every_n == 12
observation_window_hours == 24

(* Configuration: the defaults of StoryPollingManager.__init__ *)
story_active_days == 3
story_inactive_days == 14
story_dormant_days == 90
story_poll_high_every_n == 1
story_poll_normal_every_n == 1
story_poll_low_every_n == 3
story_poll_dormant_every_n == 12
TickHours == 12

(* Configuration: the retry settings of InstagramClient.__init__ *)
base_backoff == 2

UserIds == {"u1", "u2"}
username_of == [u \in UserIds |-> IF u = "u1" THEN "alice" ELSE "bob"]
priority_overrides == {"bob"}

Tiers == {"high", "normal", "low", "dormant"}

None == <<>>
Some(x) == <<x>>
Val(o) == o[1]

\* ages, in days, of the posts upstream reports: one on each threshold and one past the last
PostAgeDays == {priority_high_days, priority_normal_days, priority_low_days, priority_low_days + 1}

\* the post dates upstream can report at time t
PostDates(t) == {t - 24 * a : a \in PostAgeDays}

\* (later - earlier).days
Days(later, earlier) == (later - earlier) \div 24

----------------------------------------------------------------------------
(* AccountPollingManager: priority classification *)

\* not conservative: a recent poster starts as high
calculate_initial_priority_eager(last_post_date, t) ==
    IF last_post_date = None THEN "dormant"
    ELSE LET days_since_post == Days(t, Val(last_post_date))
         IN  IF days_since_post <= priority_high_days THEN "high"
             ELSE IF days_since_post <= priority_normal_days THEN "normal"
             ELSE IF days_since_post <= priority_low_days THEN "low"
             ELSE "dormant"

calculate_initial_priority(last_post_date, t) ==
    IF last_post_date = None THEN "dormant"
    ELSE LET days_since_post == Days(t, Val(last_post_date))
         IN  IF days_since_post <= priority_normal_days THEN "normal"
             ELSE IF days_since_post <= priority_low_days THEN "low"
             ELSE "dormant"

\* the tier of a date under the high/normal/low thresholds, None when older than low
TierOfDate(date, t) ==
    LET days_since_post == Days(t, date)
    IN  IF days_since_post <= priority_high_days THEN Some("high")
        ELSE IF days_since_post <= priority_normal_days THEN Some("normal")
        ELSE IF days_since_post <= priority_low_days THEN Some("low")
        ELSE None

\* without new posts the stored tier is kept instead of being recomputed
refine_priority_keep(activity, has_new_posts, metadata, t) ==
    IF has_new_posts /\ metadata.latest_post_date # None
    THEN LET fromNew == TierOfDate(Val(metadata.latest_post_date), t)
         IN  IF fromNew # None THEN Val(fromNew) ELSE "dormant"
    ELSE activity.poll_priority

\* an account with no post date at all labelled unknown
refine_priority_unknown(activity, has_new_posts, metadata, t) ==
    LET fromNew == IF has_new_posts /\ metadata.latest_post_date # None
                   THEN TierOfDate(Val(metadata.latest_post_date), t)
                   ELSE None
        fromRecord == IF activity.last_post_date # None
                      THEN TierOfDate(Val(activity.last_post_date), t)
                      ELSE None
    IN  IF fromNew # None THEN Val(fromNew)
        ELSE IF fromRecord # None THEN Val(fromRecord)
        ELSE "unknown"

refine_priority(activity, has_new_posts, metadata, t) ==
    LET fromNew == IF has_new_posts /\ metadata.latest_post_date # None
                   THEN TierOfDate(Val(metadata.latest_post_date), t)
                   ELSE None
        fromRecord == IF activity.last_post_date # None
                      THEN TierOfDate(Val(activity.last_post_date), t)
                      ELSE None
    IN  IF fromNew # None THEN Val(fromNew)
        ELSE IF fromRecord # None THEN Val(fromRecord)
        ELSE "dormant"

----------------------------------------------------------------------------
(* StorageManager: the account_activity table *)

post_id(date) == IF date = None THEN None ELSE Some(<<"pk", Val(date)>>)

\* INSERT OR REPLACE: the whole row is replaced by the keyword arguments, and created_at,
\* which the statement does not name, takes its column default (the current time)
\* INSERT OR IGNORE: an existing row is kept
save_account_activity_ignore(table, user_id, username, kwargs, t) ==
    [u \in (DOMAIN table) \cup {user_id} |->
        IF u = user_id /\ u \notin DOMAIN table
        THEN [username |-> username,
              media_count |-> kwargs.media_count,
              last_post_id |-> kwargs.last_post_id,
              last_post_date |-> kwargs.last_post_date,
              last_checked |-> kwargs.last_checked,
              poll_priority |-> kwargs.poll_priority,
              consecutive_no_new_posts |-> kwargs.consecutive_no_new_posts,
              created_at |-> t]
        ELSE table[u]]

save_account_activity(table, user_id, username, kwargs, t) ==
    [u \in (DOMAIN table) \cup {user_id} |->
        IF u = user_id
        THEN [username |-> username,
              media_count |-> kwargs.media_count,
              last_post_id |-> kwargs.last_post_id,
              last_post_date |-> kwargs.last_post_date,
              last_checked |-> kwargs.last_checked,
              poll_priority |-> kwargs.poll_priority,
              consecutive_no_new_posts |-> kwargs.consecutive_no_new_posts,
              created_at |-> t]
        ELSE table[u]]

\* UPDATE ... WHERE user_id = ?: only the named columns change
update_account_activity(table, user_id, updates) ==
    [u \in DOMAIN table |->
        IF u = user_id
        THEN [f \in DOMAIN table[u] |->
                 IF f \in DOMAIN updates THEN updates[f] ELSE table[u][f]]
        ELSE table[u]]

get_account_activity(table, user_id) ==
    IF user_id \in DOMAIN table THEN Some(table[user_id]) ELSE None

----------------------------------------------------------------------------
(* AccountPollingManager.update_account_priority *)

\* a 12-hour window instead of 24
observation_complete_12h(activity, t) ==
    t - activity.created_at >= 12

\* observation_hours >= 24
observation_complete(activity, t) ==
    t - activity.created_at >= observation_window_hours

\* the keyword arguments handed to update_account_activity
\* media_count defaulting to 0, not to the stored count, when none is reported
priority_updates_count_reset(activity, username, has_new_posts, metadata, t) ==
    LET base == [last_checked |-> t,
                 media_count |-> IF metadata.media_count # None
                                 THEN Val(metadata.media_count)
                                 ELSE 0]
        track == IF has_new_posts
                 THEN [last_post_id |-> metadata.latest_post_id,
                       last_post_date |-> metadata.latest_post_date,
                       consecutive_no_new_posts |-> 0]
                 ELSE [consecutive_no_new_posts |-> activity.consecutive_no_new_posts + 1]
        refined == refine_priority(activity, has_new_posts, metadata, t)
        new_priority == IF username \in priority_overrides THEN "high" ELSE refined
        tier == IF observation_complete(activity, t)
                   /\ new_priority # activity.poll_priority
                THEN [poll_priority |-> new_priority]
                ELSE <<>>
        all == <<base, track, tier>>
    IN  [f \in UNION {DOMAIN all[i] : i \in 1..3} |->
            IF f \in DOMAIN tier THEN tier[f]
            ELSE IF f \in DOMAIN track THEN track[f]
            ELSE base[f]]

priority_updates(activity, username, has_new_posts, metadata, t) ==
    LET base == [last_checked |-> t,
                 media_count |-> IF metadata.media_count # None
                                 THEN Val(metadata.media_count)
                                 ELSE activity.media_count]
        track == IF has_new_posts
                 THEN [last_post_id |-> metadata.latest_post_id,
                       last_post_date |-> metadata.latest_post_date,
                       consecutive_no_new_posts |-> 0]
                 ELSE [consecutive_no_new_posts |-> activity.consecutive_no_new_posts + 1]
        refined == refine_priority(activity, has_new_posts, metadata, t)
        new_priority == IF username \in priority_overrides THEN "high" ELSE refined
        tier == IF observation_complete(activity, t)
                   /\ new_priority # activity.poll_priority
                THEN [poll_priority |-> new_priority]
                ELSE <<>>
        all == <<base, track, tier>>
    IN  [f \in UNION {DOMAIN all[i] : i \in 1..3} |->
            IF f \in DOMAIN tier THEN tier[f]
            ELSE IF f \in DOMAIN track THEN track[f]
            ELSE base[f]]

update_account_priority(table, user_id, username, has_new_posts, metadata, t) ==
    LET activity == get_account_activity(table, user_id)
    IN  IF activity = None THEN table
        ELSE update_account_activity(
                 table, user_id,
                 priority_updates(Val(activity), username, has_new_posts, metadata, t))

----------------------------------------------------------------------------
(* AccountPollingManager.get_accounts_to_poll_this_cycle *)

Range(s) == {s[i] : i \in DOMAIN s}

\* the orders in which SELECT ... ORDER BY last_checked DESC can return the rows
get_all_account_activity(table) ==
    {s \in [1..Cardinality(DOMAIN table) -> DOMAIN table] :
        /\ \A i, j \in DOMAIN s : i # j => s[i] # s[j]
        /\ \A i, j \in DOMAIN s :
              i < j => table[s[i]].last_checked >= table[s[j]].last_checked}

\* the cadences of low and dormant exchanged
poll_every_n_cycles_swapped(priority) ==
    CASE priority = "high" -> poll_high_every_n
      [] priority = "normal" -> poll_normal_every_n
      [] priority = "low" -> poll_dormant_every_n
      [] priority = "dormant" -> poll_low_every_n

poll_every_n_cycles(priority) ==
    CASE priority = "high" -> poll_high_every_n
      [] priority = "normal" -> poll_normal_every_n
      [] priority = "low" -> poll_low_every_n
      [] priority = "dormant" -> poll_dormant_every_n

\* the override check left out
should_poll_cadence_only(row, cycle) ==
    /\ row.poll_priority \in Tiers
    /\ cycle % poll_every_n_cycles(row.poll_priority) = 0

\* the filter of the selection loop: an override, or the tier's cadence divides the cycle
should_poll(row, cycle) ==
    \/ row.username \in priority_overrides
    \/ /\ row.poll_priority \in Tiers
       /\ cycle % poll_every_n_cycles(row.poll_priority) = 0

priority_order(priority) ==
    CASE priority = "high" -> 0
      [] priority = "normal" -> 1
      [] priority = "low" -> 2
      [] priority = "dormant" -> 3
      [] OTHER -> 4

\* the sort key (priority_order, last_checked) compared as Python compares tuples
key_greater(table, a, b) ==
    \/ priority_order(table[a].poll_priority) > priority_order(table[b].poll_priority)
    \/ /\ priority_order(table[a].poll_priority) = priority_order(table[b].poll_priority)
       /\ table[a].last_checked > table[b].last_checked

RECURSIVE insert_sorted(_, _, _)
\* x goes before the first element whose key is greater than its own
insert_sorted(table, x, s) ==
    IF s = <<>> THEN <<x>>
    ELSE IF key_greater(table, Head(s), x) THEN <<x>> \o s
         ELSE <<Head(s)>> \o insert_sorted(table, x, Tail(s))

RECURSIVE sort_by_priority(_, _)
\* list.sort(key=...): stable, ascending
sort_by_priority(table, s) ==
    IF s = <<>> THEN <<>>
    ELSE insert_sorted(table, s[Len(s)], sort_by_priority(table, SubSeq(s, 1, Len(s) - 1)))

\* the accounts that pass the filter, in the order of all_activities
accounts_passing_filter(table, cycle, all_activities) ==
    LET Due(u) == should_poll(table[u], cycle)
    IN  SelectSeq(all_activities, Due)

\* the truncation without the sort
apply_max_accounts_unsorted(table, accounts_to_poll, max_accounts) ==
    IF max_accounts > 0
    THEN SubSeq(accounts_to_poll, 1,
                IF Len(accounts_to_poll) < max_accounts
                THEN Len(accounts_to_poll) ELSE max_accounts)
    ELSE accounts_to_poll

\* max_accounts = 0 stands for None and for 0: no sort, no truncation
apply_max_accounts(table, accounts_to_poll, max_accounts) ==
    IF max_accounts > 0
    THEN LET sorted == sort_by_priority(table, accounts_to_poll)
         IN  SubSeq(sorted, 1, IF Len(sorted) < max_accounts THEN Len(sorted) ELSE max_accounts)
    ELSE accounts_to_poll

get_accounts_to_poll_this_cycle(table, cycle, all_activities, max_accounts) ==
    apply_max_accounts(table, accounts_passing_filter(table, cycle, all_activities), max_accounts)

----------------------------------------------------------------------------
(* FollowingManager and the following_accounts table (the following cache) *)

\* FOLLOWING_CACHE_HOURS
following_cache_hours == 24

\* the rows save_following_accounts inserts at time t
following_rows(accounts, t) ==
    [u \in accounts |-> [username |-> username_of[u], last_checked |-> t]]

\* the user ids the rows of account_activity and account_story_activity refer to
\* (FOREIGN KEY (user_id) REFERENCES following_accounts(user_id), no ON DELETE action)
referencing_rows(activity, stories) == (DOMAIN activity) \cup (DOMAIN stories)

\* DELETE FROM following_accounts, then one INSERT per account, in one transaction.
\* With PRAGMA foreign_keys = ON the DELETE raises IntegrityError when a row it removes
\* is referred to by an activity row; any exception (db_error stands for the others)
\* rolls the transaction back and False is returned.
save_following_accounts(table, referenced, accounts, t, db_error) ==
    IF db_error \/ (DOMAIN table) \cap referenced # {}
    THEN [ret |-> FALSE, table |-> table]
    ELSE [ret |-> TRUE, table |-> following_rows(accounts, t)]

\* the collation of the usernames of the model
UsernameRank(username) == IF username = "alice" THEN 1 ELSE 2

\* SELECT ... FROM following_accounts ORDER BY username, as the list of user ids
get_following_accounts(table) ==
    CHOOSE s \in [1..Cardinality(DOMAIN table) -> DOMAIN table] :
        \A i, j \in DOMAIN s :
            i < j => UsernameRank(table[s[i]].username) < UsernameRank(table[s[j]].username)

\* datetime.now() - MAX(last_checked), or None when the table is empty
get_following_cache_age(table, t) ==
    IF DOMAIN table = {} THEN None
    ELSE LET last_checked ==
                 CHOOSE c \in {table[u].last_checked : u \in DOMAIN table} :
                     \A u \in DOMAIN table : table[u].last_checked <= c
         IN  Some(t - last_checked)

\* a cache of exactly cache_hours still taken for fresh
is_cache_fresh_inclusive(table, t) ==
    LET cache_age == get_following_cache_age(table, t)
    IN  IF cache_age = None THEN FALSE ELSE Val(cache_age) <= following_cache_hours

is_cache_fresh(table, t) ==
    LET cache_age == get_following_cache_age(table, t)
    IN  IF cache_age = None THEN FALSE ELSE Val(cache_age) < following_cache_hours

\* what client.user_following can do: raise, or return the accounts followed
UpstreamFollowing ==
    {[raised |-> TRUE, following |-> {}]}
    \cup {[raised |-> FALSE, following |-> A] : A \in SUBSET UserIds}

\* refresh_following_list(): login_raised says what login() does if the client is not
\* authenticated; every exception is caught and False returned
refresh_following_list(table, referenced, authenticated, login_raised, upstream, db_error, t) ==
    IF ~authenticated /\ login_raised
    THEN [ret |-> FALSE, table |-> table, authenticated |-> FALSE,
          login_calls |-> 1, user_following_calls |-> 0]
    ELSE IF upstream.raised
    THEN [ret |-> FALSE, table |-> table, authenticated |-> TRUE,
          login_calls |-> IF authenticated THEN 0 ELSE 1, user_following_calls |-> 1]
    ELSE LET saved == save_following_accounts(table, referenced, upstream.following,
                                              t, db_error)
         IN  [ret |-> saved.ret, table |-> saved.table, authenticated |-> TRUE,
              login_calls |-> IF authenticated THEN 0 ELSE 1, user_following_calls |-> 1]

\* get_following_list(refresh): the list returned is read from the table afterwards
get_following_list(table, referenced, refresh, authenticated, login_raised, upstream, db_error, t) ==
    LET refreshed ==
            IF refresh \/ ~is_cache_fresh(table, t)
            THEN refresh_following_list(table, referenced, authenticated, login_raised,
                                        upstream, db_error, t)
            ELSE [ret |-> TRUE, table |-> table, authenticated |-> authenticated,
                  login_calls |-> 0, user_following_calls |-> 0]
    IN  [ret |-> get_following_accounts(refreshed.table),
         table |-> refreshed.table,
         authenticated |-> refreshed.authenticated,
         refreshed |-> (refresh \/ ~is_cache_fresh(table, t)) /\ refreshed.ret,
         login_calls |-> refreshed.login_calls,
         user_following_calls |-> refreshed.user_following_calls]

----------------------------------------------------------------------------
(* Cold start: _smart_polling_sync when is_first_sync(), and                *)
(* AccountPollingManager.initialize_activity_profiles                      *)

Max(S) == CHOOSE x \in S : \A y \in S : y <= x

\* what the probes of a cold start can put in posts_by_account: for each account the
\* dates of the posts fetched (empty when the account has none or the probe failed)
ProbeResults(accounts, t) ==
    [{username_of[u] : u \in accounts} ->
        {P \in SUBSET PostDates(t) : Cardinality(P) <= MaxProbePosts}]

RECURSIVE initialize_activity_profiles(_, _, _, _)
initialize_activity_profiles(table, accounts, posts_by_account, t) ==
    IF accounts = {} THEN table
    ELSE LET user_id == CHOOSE u \in accounts : TRUE
             username == username_of[user_id]
             posts == posts_by_account[username]
             last_post_date == IF posts # {} THEN Some(Max(posts)) ELSE None
             priority == calculate_initial_priority(last_post_date, t)
             saved == save_account_activity(
                          table, user_id, username,
                          [media_count |-> Cardinality(posts),
                           last_post_id |-> post_id(last_post_date),
                           last_post_date |-> last_post_date,
                           last_checked |-> t,
                           poll_priority |-> IF username \in priority_overrides
                                             THEN "high" ELSE priority,
                           consecutive_no_new_posts |-> 0],
                          t)
         IN  initialize_activity_profiles(saved, accounts \ {user_id}, posts_by_account, t)

\* every account counted as a success
success_rate_reached_always(accounts, posts_by_account) == accounts # {}

\* success_rate >= 0.5, with success_rate = successful / total, or 0 when total = 0
success_rate_reached(accounts, posts_by_account) ==
    LET successful_accounts ==
            Cardinality({u \in accounts : posts_by_account[username_of[u]] # {}})
        total_accounts == Cardinality(accounts)
    IN  total_accounts > 0 /\ 2 * successful_accounts >= total_accounts

\* following_accounts[:MAX_ACCOUNTS_TO_FETCH] when the limit is positive
limit_accounts(following_list, max_accounts_to_fetch) ==
    IF max_accounts_to_fetch > 0
    THEN SubSeq(following_list, 1,
                IF Len(following_list) < max_accounts_to_fetch
                THEN Len(following_list) ELSE max_accounts_to_fetch)
    ELSE following_list

\* the accounts a cold-start run probes and initializes: the following list (refreshed
\* by the run's own, just logged-in client when the cache is not fresh), limited
cold_start_accounts(max_accounts_to_fetch, upstream, refresh_db_error) ==
    Range(limit_accounts(
              get_following_list(following_cache,
                                 referencing_rows(account_activity, story_activity),
                                 FALSE, TRUE, FALSE, upstream, refresh_db_error, now).ret,
              max_accounts_to_fetch))

\* a cold-start run; probe_raised are the accounts whose probe raised, the others with
\* nothing in posts_by_account were probed without error and have no posts
ColdStart(max_accounts_to_fetch, upstream, refresh_db_error, db_error, posts_by_account, probe_raised) ==
    \E listed \in {get_following_list(following_cache,
                                      referencing_rows(account_activity, story_activity),
                                      FALSE, TRUE, FALSE, upstream, refresh_db_error, now)} :
        \E accounts \in {Range(limit_accounts(listed.ret, max_accounts_to_fetch))} :
            /\ ~initialized
            /\ runs < MaxColdStartRuns
            /\ UNCHANGED jobs
            /\ following_cache' =
                   save_following_accounts(
                       listed.table, referencing_rows(account_activity, story_activity),
                       accounts, now, db_error).table
            /\ account_activity' =
                   initialize_activity_profiles(account_activity, accounts,
                                                posts_by_account, now)
            /\ initialized' = success_rate_reached(accounts, posts_by_account)
            /\ last_call' = [op |-> "cold_start", accounts |-> accounts,
                             posts_by_account |-> posts_by_account,
                             probe_raised |-> probe_raised,
                             recorded_before |-> DOMAIN account_activity,
                             max_accounts_to_fetch |-> max_accounts_to_fetch,
                             following_list |-> listed.ret]
            /\ runs' = runs + 1
            /\ UNCHANGED <<now, current_cycle, storyVars>>
            /\ UNCHANGED clientVars

\* a run of _smart_polling_sync whose first login() fails: it returns at once
RunLoginFailed ==
    /\ runs < MaxColdStartRuns
    /\ runs' = runs + 1
    /\ last_call' = [op |-> "run_login_failed"]
    /\ UNCHANGED <<now, account_activity, initialized, current_cycle, storyVars>>
    /\ UNCHANGED <<following_cache, jobs>>
    /\ UNCHANGED clientVars

----------------------------------------------------------------------------
(* Steady state: the steps of _smart_polling_sync once initialized *)

\* the first step of a steady-state run
increment_cycle ==
    /\ initialized
    /\ current_cycle < MaxCycle
    /\ current_cycle' = current_cycle + 1
    /\ runs' = runs + 1
    /\ last_call' = [op |-> "increment_cycle", ret |-> current_cycle + 1]
    /\ UNCHANGED <<now, account_activity, initialized, storyVars>>
    /\ UNCHANGED <<following_cache, jobs>>
    /\ UNCHANGED clientVars

RECURSIVE add_new_follows(_, _, _)
add_new_follows(table, new_follows, t) ==
    IF new_follows = {} THEN table
    ELSE LET user_id == CHOOSE u \in new_follows : TRUE
         IN  add_new_follows(
                 save_account_activity(
                     table, user_id, username_of[user_id],
                     [media_count |-> 0, last_post_id |-> None, last_post_date |-> None,
                      last_checked |-> t, poll_priority |-> "normal",
                      consecutive_no_new_posts |-> 0],
                     t),
                 new_follows \ {user_id}, t)

\* every followed account saved anew, the test "not in existing_activities" left out
sync_following_with_activity_all(following_accounts) ==
    /\ initialized
    /\ account_activity' = add_new_follows(account_activity, following_accounts, now)
    /\ last_call' = [op |-> "sync_following_with_activity",
                     following_accounts |-> following_accounts]
    /\ UNCHANGED <<now, initialized, current_cycle, runs, storyVars>>
    /\ UNCHANGED <<following_cache, jobs>>
    /\ UNCHANGED clientVars

sync_following_with_activity(following_accounts) ==
    /\ initialized
    /\ account_activity' =
           add_new_follows(account_activity,
                           following_accounts \ DOMAIN account_activity, now)
    /\ last_call' = [op |-> "sync_following_with_activity",
                     following_accounts |-> following_accounts]
    /\ UNCHANGED <<now, initialized, current_cycle, runs, storyVars>>
    /\ UNCHANGED <<following_cache, jobs>>
    /\ UNCHANGED clientVars

SelectAccounts(max_accounts, all_activities) ==
    /\ initialized
    /\ last_call' =
           [op |-> "get_accounts_to_poll_this_cycle",
            max_accounts |-> max_accounts,
            all_activities |-> all_activities,
            eligible |-> accounts_passing_filter(account_activity, current_cycle,
                                                 all_activities),
            ret |-> IF all_activities = <<>> THEN <<>>
                    ELSE get_accounts_to_poll_this_cycle(
                             account_activity, current_cycle, all_activities, max_accounts)]
    /\ UNCHANGED <<now, postVars, storyVars>>
    /\ UNCHANGED <<following_cache, jobs>>
    /\ UNCHANGED clientVars

\* the poll results update_account_priority can be handed at time t: the metadata
\* check_account_for_new_posts builds (media_count 0 and no post; posts but none
\* fetched; the latest post), and a metadata dict without a media_count key
Metadata(t) ==
    {[media_count |-> m, latest_post_id |-> None, latest_post_date |-> None] :
        m \in {None, Some(0), Some(1)}}
    \cup
    {[media_count |-> Some(1), latest_post_id |-> post_id(Some(x)),
      latest_post_date |-> Some(x)] : x \in PostDates(t)}

UpdateAccountPriority(user_id, has_new_posts, metadata) ==
    /\ initialized
    /\ user_id \in DOMAIN account_activity =>
           (has_new_posts
            \/ account_activity[user_id].consecutive_no_new_posts < MaxConsecutive)
    /\ account_activity' =
           update_account_priority(account_activity, user_id, username_of[user_id],
                                   has_new_posts, metadata, now)
    /\ last_call' = [op |-> "update_account_priority",
                     user_id |-> user_id,
                     has_new_posts |-> has_new_posts,
                     metadata |-> metadata]
    /\ UNCHANGED <<now, initialized, current_cycle, runs, storyVars>>
    /\ UNCHANGED <<following_cache, jobs>>
    /\ UNCHANGED clientVars

\* time passes
Tick ==
    /\ now < MaxTicks * TickHours
    /\ now' = now + TickHours
    /\ last_call' = [op |-> "tick"]
    /\ UNCHANGED <<postVars, storyVars>>
    /\ UNCHANGED <<following_cache, jobs>>
    /\ UNCHANGED clientVars

----------------------------------------------------------------------------
(* StoryPollingManager and the account_story_activity table *)

\* ages, in days, of the stories upstream reports
StoryAgeDays == {story_active_days, story_inactive_days, story_dormant_days,
                 story_dormant_days + 1}

StoryDates(t) == {t - 24 * a : a \in StoryAgeDays}

story_id(date) == IF date = None THEN None ELSE Some(<<"story", Val(date)>>)

\* INSERT OR REPLACE INTO account_story_activity
save_account_story_activity(table, user_id, username, kwargs) ==
    [u \in (DOMAIN table) \cup {user_id} |->
        IF u = user_id
        THEN [username |-> username,
              is_muting_stories |-> kwargs.is_muting_stories,
              last_story_id |-> kwargs.last_story_id,
              last_story_date |-> kwargs.last_story_date,
              last_checked |-> kwargs.last_checked,
              story_poll_priority |-> kwargs.story_poll_priority,
              consecutive_no_new_stories |-> kwargs.consecutive_no_new_stories,
              stories_fetched_count |-> kwargs.stories_fetched_count]
        ELSE table[u]]

\* UPDATE account_story_activity SET ... WHERE user_id = ?
update_account_story_activity(table, user_id, updates) ==
    [u \in DOMAIN table |->
        IF u = user_id
        THEN [f \in DOMAIN table[u] |->
                 IF f \in DOMAIN updates THEN updates[f] ELSE table[u][f]]
        ELSE table[u]]

\* the orders of the given accounts by last_checked ascending
OrdersByLastChecked(table, accounts) ==
    {s \in [1..Cardinality(accounts) -> accounts] :
        /\ \A i, j \in DOMAIN s : i # j => s[i] # s[j]
        /\ \A i, j \in DOMAIN s :
              i < j => table[s[i]].last_checked <= table[s[j]].last_checked}

\* the WHERE clause left out: every account is returned
get_unmuted_accounts_for_stories_all(table) ==
    OrdersByLastChecked(table, DOMAIN table)

\* SELECT ... WHERE is_muting_stories = 0 ORDER BY last_checked ASC
get_unmuted_accounts_for_stories(table) ==
    OrdersByLastChecked(table, {u \in DOMAIN table : ~table[u].is_muting_stories})

story_poll_every_n(priority) ==
    CASE priority = "high" -> story_poll_high_every_n
      [] priority = "normal" -> story_poll_normal_every_n
      [] priority = "low" -> story_poll_low_every_n
      [] priority = "dormant" -> story_poll_dormant_every_n

\* an unknown tier is skipped; otherwise the tier's cadence must divide the cycle
story_should_poll(row, cycle) ==
    /\ row.story_poll_priority \in Tiers
    /\ cycle % story_poll_every_n(row.story_poll_priority) = 0

RECURSIVE story_insert_sorted(_, _, _)
story_insert_sorted(table, x, s) ==
    IF s = <<>> THEN <<x>>
    ELSE IF table[Head(s)].last_checked > table[x].last_checked THEN <<x>> \o s
         ELSE <<Head(s)>> \o story_insert_sorted(table, x, Tail(s))

RECURSIVE story_sort_by_last_checked(_, _)
\* list.sort(key=last_checked): stable, ascending
story_sort_by_last_checked(table, s) ==
    IF s = <<>> THEN <<>>
    ELSE story_insert_sorted(
             table, s[Len(s)], story_sort_by_last_checked(table, SubSeq(s, 1, Len(s) - 1)))

\* max_accounts = 0 stands for None and for 0
story_get_accounts_to_poll_this_cycle(table, cycle, unmuted_accounts, max_accounts) ==
    LET Due(u) == story_should_poll(table[u], cycle)
        accounts_to_poll == story_sort_by_last_checked(table, SelectSeq(unmuted_accounts, Due))
    IN  IF max_accounts > 0 /\ Len(accounts_to_poll) > max_accounts
        THEN SubSeq(accounts_to_poll, 1, max_accounts)
        ELSE accounts_to_poll

RECURSIVE initialize_story_activity_profiles(_, _, _, _)
\* is_muted[u] is what check_story_mute_status answers for u
initialize_story_activity_profiles(table, accounts, is_muted, t) ==
    IF accounts = {} THEN table
    ELSE LET user_id == CHOOSE u \in accounts : TRUE
         IN  initialize_story_activity_profiles(
                 save_account_story_activity(
                     table, user_id, username_of[user_id],
                     [is_muting_stories |-> is_muted[user_id],
                      last_story_id |-> None, last_story_date |-> None,
                      last_checked |-> t, story_poll_priority |-> "normal",
                      consecutive_no_new_stories |-> 0, stories_fetched_count |-> 0]),
                 accounts \ {user_id}, is_muted, t)

\* recency alone, the consecutive-miss counter ignored
story_refine_priority_recency(activity, consecutive_no_new, has_new_stories, t) ==
    IF has_new_stories THEN "high"
    ELSE IF activity.last_story_date = None THEN "normal"
    ELSE LET days_since_story == Days(t, Val(activity.last_story_date))
         IN  IF days_since_story <= story_active_days THEN "high"
             ELSE IF days_since_story <= story_inactive_days THEN "normal"
             ELSE IF days_since_story <= story_dormant_days THEN "low"
             ELSE "dormant"

story_refine_priority(activity, consecutive_no_new, has_new_stories, t) ==
    IF has_new_stories THEN "high"
    ELSE IF activity.last_story_date = None
    THEN IF consecutive_no_new >= 10 THEN "dormant"
         ELSE IF consecutive_no_new >= 5 THEN "low"
         ELSE "normal"
    ELSE LET days_since_story == Days(t, Val(activity.last_story_date))
         IN  IF days_since_story <= story_active_days
             THEN IF consecutive_no_new >= 5 THEN "normal" ELSE "high"
             ELSE IF days_since_story <= story_inactive_days
             THEN IF consecutive_no_new >= 7 THEN "low" ELSE "normal"
             ELSE IF days_since_story <= story_dormant_days THEN "low"
             ELSE "dormant"

\* stories_fetched_count overwritten with the reported count, not added to
story_update_kwargs_overwrite(activity, has_new_stories, story_metadata, t) ==
    LET new_consecutive == IF has_new_stories THEN 0
                           ELSE activity.consecutive_no_new_stories + 1
        new_priority == story_refine_priority(activity, new_consecutive, has_new_stories, t)
    IN  IF has_new_stories
        THEN [last_story_id |-> story_metadata.latest_story_id,
              last_story_date |-> story_metadata.latest_story_date,
              last_checked |-> t,
              consecutive_no_new_stories |-> new_consecutive,
              stories_fetched_count |-> story_metadata.story_count,
              story_poll_priority |-> new_priority]
        ELSE [last_checked |-> t,
              consecutive_no_new_stories |-> new_consecutive,
              story_poll_priority |-> new_priority]

\* the keyword arguments update_account_priority_after_check hands to the update
story_update_kwargs(activity, has_new_stories, story_metadata, t) ==
    LET new_consecutive == IF has_new_stories THEN 0
                           ELSE activity.consecutive_no_new_stories + 1
        new_priority == story_refine_priority(activity, new_consecutive, has_new_stories, t)
    IN  IF has_new_stories
        THEN [last_story_id |-> story_metadata.latest_story_id,
              last_story_date |-> story_metadata.latest_story_date,
              last_checked |-> t,
              consecutive_no_new_stories |-> new_consecutive,
              stories_fetched_count |->
                  activity.stories_fetched_count + story_metadata.story_count,
              story_poll_priority |-> new_priority]
        ELSE [last_checked |-> t,
              consecutive_no_new_stories |-> new_consecutive,
              story_poll_priority |-> new_priority]

update_account_priority_after_check(table, user_id, has_new_stories, story_metadata, t) ==
    IF user_id \notin DOMAIN table THEN table
    ELSE update_account_story_activity(
             table, user_id,
             story_update_kwargs(table[user_id], has_new_stories, story_metadata, t))

\* is_muted[u] is what check_story_mute_status answers for u
refresh_mute_statuses(table, is_muted) ==
    [u \in DOMAIN table |->
        IF table[u].is_muting_stories # is_muted[u]
        THEN update_account_story_activity(
                 table, u, [is_muting_stories |-> is_muted[u]])[u]
        ELSE table[u]]

StoryInitializeProfiles(accounts, is_muted) ==
    /\ story_activity' =
           initialize_story_activity_profiles(story_activity, accounts, is_muted, now)
    /\ last_call' = [op |-> "initialize_story_activity_profiles", accounts |-> accounts,
                     is_muted |-> is_muted]
    /\ UNCHANGED <<now, postVars, story_cycle, last_mute_refresh>>
    /\ UNCHANGED <<following_cache, jobs>>
    /\ UNCHANGED clientVars

story_increment_cycle ==
    /\ story_cycle < MaxCycle
    /\ story_cycle' = story_cycle + 1
    /\ last_call' = [op |-> "story_increment_cycle", ret |-> story_cycle + 1]
    /\ UNCHANGED <<now, postVars, story_activity, last_mute_refresh>>
    /\ UNCHANGED <<following_cache, jobs>>
    /\ UNCHANGED clientVars

StorySelectAccounts(max_accounts, unmuted_accounts) ==
    /\ last_call' =
           [op |-> "story_get_accounts_to_poll_this_cycle",
            max_accounts |-> max_accounts,
            ret |-> story_get_accounts_to_poll_this_cycle(
                        story_activity, story_cycle, unmuted_accounts, max_accounts)]
    /\ UNCHANGED <<now, postVars, storyVars>>
    /\ UNCHANGED <<following_cache, jobs>>
    /\ UNCHANGED clientVars

\* the story checks update_account_priority_after_check can be handed at time t
StoryMetadata(t) ==
    {[latest_story_id |-> story_id(d), latest_story_date |-> d, story_count |-> n] :
        d \in {None} \cup {Some(x) : x \in StoryDates(t)}, n \in {0, 1}}

StoryUpdateAfterCheck(user_id, has_new_stories, story_metadata) ==
    /\ user_id \in DOMAIN story_activity =>
           IF has_new_stories
           THEN story_activity[user_id].stories_fetched_count + story_metadata.story_count
                    <= MaxStoriesFetched
           ELSE story_activity[user_id].consecutive_no_new_stories < MaxConsecutiveStories
    /\ story_activity' =
           update_account_priority_after_check(story_activity, user_id, has_new_stories,
                                               story_metadata, now)
    /\ last_call' = [op |-> "update_account_priority_after_check",
                     user_id |-> user_id,
                     has_new_stories |-> has_new_stories,
                     story_metadata |-> story_metadata]
    /\ UNCHANGED <<now, postVars, story_cycle, last_mute_refresh>>
    /\ UNCHANGED <<following_cache, jobs>>
    /\ UNCHANGED clientVars

\* datetime.isoformat(): the text stored in sync_metadata
isoformat(t) == [iso |-> TRUE, hours |-> t]

\* a stored text that is no ISO date
NotIsoText == [iso |-> FALSE, hours |-> 0]

\* datetime.fromisoformat(text): the datetime, or None for ValueError
fromisoformat(text) == IF text.iso THEN Some(text.hours) ELSE None

\* mute_refresh_hours
mute_refresh_hours == 24

\* a refresh exactly mute_refresh_hours old not yet due
should_refresh_mute_statuses_strict(last_refresh_str, t) ==
    IF last_refresh_str = None THEN TRUE
    ELSE LET last_refresh == fromisoformat(Val(last_refresh_str))
         IN  IF last_refresh = None THEN TRUE
             ELSE t - Val(last_refresh) > mute_refresh_hours

\* should_refresh_mute_statuses(): last_refresh_str is sync_metadata['last_mute_refresh']
should_refresh_mute_statuses(last_refresh_str, t) ==
    IF last_refresh_str = None THEN TRUE
    ELSE LET last_refresh == fromisoformat(Val(last_refresh_str))
         IN  IF last_refresh = None THEN TRUE
             ELSE t - Val(last_refresh) >= mute_refresh_hours

ShouldRefreshMuteStatuses ==
    /\ last_call' = [op |-> "should_refresh_mute_statuses",
                     ret |-> should_refresh_mute_statuses(last_mute_refresh, now)]
    /\ UNCHANGED <<now, postVars, storyVars>>
    /\ UNCHANGED <<following_cache, jobs>>
    /\ UNCHANGED clientVars

RefreshMuteStatuses(is_muted) ==
    /\ story_activity' = refresh_mute_statuses(story_activity, is_muted)
    /\ last_mute_refresh' = Some(isoformat(now))
    /\ last_call' = [op |-> "refresh_mute_statuses", is_muted |-> is_muted]
    /\ UNCHANGED <<now, postVars, story_cycle>>
    /\ UNCHANGED <<following_cache, jobs>>
    /\ UNCHANGED clientVars

----------------------------------------------------------------------------
(* InstagramClient: login and the resilient operation executor *)

PleaseWaitFewMinutes(status_code) ==
    [type |-> "PleaseWaitFewMinutes", status_code |-> status_code]

LoginRequired == [type |-> "LoginRequired", status_code |-> None]

ClientError == [type |-> "ClientError", status_code |-> None]

ConnectionError == [type |-> "ConnectionError", status_code |-> None]

ChallengeRequired == [type |-> "ChallengeRequired", status_code |-> None]

\* an exception of no type the executor names (ValueError, KeyError, ...)
UnexpectedError == [type |-> "Exception", status_code |-> None]

Returns == [type |-> "returns", status_code |-> None]

\* what one invocation of the wrapped operation can do
FuncOutcomes ==
    {Returns, PleaseWaitFewMinutes(Some(401)), PleaseWaitFewMinutes(Some(429)),
     PleaseWaitFewMinutes(None), LoginRequired, ClientError, ConnectionError,
     UnexpectedError}

\* what login() can do on an unauthenticated client: return True or raise
LoginOutcomes == {Returns, LoginRequired, ChallengeRequired}

\* every PleaseWaitFewMinutes taken for an expired session, whatever its status code
is_authentication_error_any(exception) ==
    \/ exception.type = "PleaseWaitFewMinutes"
    \/ exception.type = "LoginRequired"

is_authentication_error(exception) ==
    \/ /\ exception.type = "PleaseWaitFewMinutes"
       /\ exception.status_code = Some(401)
    \/ exception.type = "LoginRequired"

\* an exception together with who raised it, and on which attempt of the call
Raised(exception, raised_by, attempt_no) ==
    [exception |-> exception, raised_by |-> raised_by, attempt_no |-> attempt_no]

\* Exception("No attempts made")
NoAttemptsMade == Raised(UnexpectedError, "executor", 0)

no_call ==
    [pc |-> "idle", max_retries |-> 0, attempt |-> 0, auth_retry_attempted |-> FALSE,
     last_exception |-> NoAttemptsMade, outcomes |-> <<>>, attempts |-> 0,
     sleeps |-> <<>>, login_results |-> <<>>, error |-> None, result |-> None]

\* the locals of _retry_with_backoff on entry
new_call(max_retries) ==
    [no_call EXCEPT !.pc = "running", !.max_retries = max_retries]

\* the client as one record
Self ==
    [is_authenticated |-> is_authenticated, reauth_attempts |-> reauth_attempts,
     reauth_successes |-> reauth_successes, reauth_failures |-> reauth_failures,
     call |-> call]

\* the exception leaves _retry_with_backoff
raise(self, error) ==
    [self EXCEPT !.call.pc = "raised", !.call.error = Some(error)]

\* the loop ends after max_retries - 1 iterations
next_iteration_short(self) ==
    IF self.call.attempt + 1 < self.call.max_retries - 1
    THEN [self EXCEPT !.call.attempt = @ + 1]
    ELSE raise(self, self.call.last_exception)

\* the end of a loop iteration that neither returned nor raised: the next iteration, or
\* past the loop "raise last_exception"
next_iteration(self) ==
    IF self.call.attempt + 1 < self.call.max_retries
    THEN [self EXCEPT !.call.attempt = @ + 1]
    ELSE raise(self, self.call.last_exception)

\* time.sleep(wait_time); last_exception = e
sleep_and_retry(self, e, wait_time) ==
    next_iteration([self EXCEPT !.call.sleeps = Append(@, wait_time),
                                !.call.last_exception = e])

\* the re-authentication of both handlers; login() is entered unauthenticated, so it
\* either logs in and returns True or raises
reauthenticate(self, login_outcome) ==
    LET s1 == [self EXCEPT !.is_authenticated = FALSE,
                           !.call.auth_retry_attempted = TRUE,
                           !.reauth_attempts = @ + 1,
                           !.call.login_results = Append(@, login_outcome)]
        login_error == Raised(login_outcome, "login", self.call.attempts)
    IN  IF login_outcome = Returns
        THEN next_iteration([s1 EXCEPT !.is_authenticated = TRUE,
                                       !.reauth_successes = @ + 1])
        ELSE IF login_outcome.type = "LoginRequired"
        THEN raise(s1, login_error)
        ELSE raise([s1 EXCEPT !.reauth_failures = @ + 1], login_error)

\* re-authentication whether or not one was already attempted in this call
may_reauthenticate_always(self) == TRUE

may_reauthenticate(self) == ~self.call.auth_retry_attempted

\* except PleaseWaitFewMinutes as e
handle_please_wait(self, e, login_outcome) ==
    IF is_authentication_error(e.exception) /\ may_reauthenticate(self)
    THEN reauthenticate(self, login_outcome)
    ELSE sleep_and_retry(self, e, base_backoff * (2 ^ self.call.attempt) * 5)

\* except LoginRequired as e
handle_login_required(self, e, login_outcome) ==
    IF may_reauthenticate(self)
    THEN reauthenticate(self, login_outcome)
    ELSE raise(self, e)

\* a backoff that grows linearly: base_backoff * (attempt + 1)
handle_client_error_linear(self, e) ==
    sleep_and_retry(self, e, base_backoff * (self.call.attempt + 1))

\* except (ClientError, ConnectionError) as e
handle_client_error(self, e) ==
    sleep_and_retry(self, e, base_backoff * (2 ^ self.call.attempt))

\* the unexpected error handled like a network error
handle_unexpected_retry(self, e) ==
    sleep_and_retry(self, e, base_backoff * (2 ^ self.call.attempt))

\* except Exception as e
handle_unexpected(self, e) == raise(self, e)

\* one iteration of "for attempt in range(self.max_retries)": the operation is invoked
\* and does `outcome`; login_outcome is what login() does if this iteration calls it
retry_iteration(self, outcome, login_outcome) ==
    LET attempt_no == self.call.attempts + 1
        s1 == [self EXCEPT !.call.attempts = attempt_no,
                           !.call.outcomes = Append(@, outcome)]
        e == Raised(outcome, "func", attempt_no)
    IN  CASE outcome = Returns ->
                 [s1 EXCEPT !.call.pc = "returned", !.call.result = Some(attempt_no)]
          [] outcome.type = "PleaseWaitFewMinutes" ->
                 handle_please_wait(s1, e, login_outcome)
          [] outcome.type = "LoginRequired" ->
                 handle_login_required(s1, e, login_outcome)
          [] outcome.type \in {"ClientError", "ConnectionError"} ->
                 handle_client_error(s1, e)
          [] OTHER -> handle_unexpected(s1, e)

\* login(): the shortcut when already authenticated, else True or an exception
login(self, login_outcome) ==
    IF self.is_authenticated THEN self
    ELSE IF login_outcome = Returns THEN [self EXCEPT !.is_authenticated = TRUE]
    ELSE self

SetSelf(self) ==
    /\ is_authenticated' = self.is_authenticated
    /\ reauth_attempts' = self.reauth_attempts
    /\ reauth_successes' = self.reauth_successes
    /\ reauth_failures' = self.reauth_failures
    /\ call' = self.call

\* the caller's login(), between executor calls
Login(login_outcome) ==
    /\ call.pc # "running"
    /\ SetSelf(login(Self, login_outcome))
    /\ last_call' = [op |-> "login"]
    /\ UNCHANGED <<now, postVars, storyVars>>
    /\ UNCHANGED <<following_cache, jobs>>

\* every 401-shaped or login-required failure taken for a rate limit
validate_session_trusting(self, outcome) ==
    IF ~self.is_authenticated
    THEN [self |-> self, ret |-> FALSE, upstream_calls |-> 0]
    ELSE IF outcome = Returns
    THEN [self |-> self, ret |-> TRUE, upstream_calls |-> 1]
    ELSE IF outcome.type \in {"LoginRequired", "PleaseWaitFewMinutes"}
    THEN [self |-> self, ret |-> TRUE, upstream_calls |-> 1]
    ELSE [self |-> self, ret |-> FALSE, upstream_calls |-> 1]

\* validate_session(): `outcome` is what client.account_info() does if it is called
validate_session(self, outcome) ==
    IF ~self.is_authenticated
    THEN [self |-> self, ret |-> FALSE, upstream_calls |-> 0]
    ELSE IF outcome = Returns
    THEN [self |-> self, ret |-> TRUE, upstream_calls |-> 1]
    ELSE IF outcome.type \in {"LoginRequired", "PleaseWaitFewMinutes"}
    THEN IF is_authentication_error(outcome)
         THEN [self |-> [self EXCEPT !.is_authenticated = FALSE], ret |-> FALSE,
               upstream_calls |-> 1]
         ELSE [self |-> self, ret |-> TRUE, upstream_calls |-> 1]
    ELSE [self |-> self, ret |-> FALSE, upstream_calls |-> 1]

\* the caller's validate_session(), between executor calls
ValidateSession(outcome) ==
    /\ call.pc # "running"
    /\ SetSelf(validate_session(Self, outcome).self)
    /\ last_call' = [op |-> "validate_session",
                     was_authenticated |-> is_authenticated,
                     outcome |-> outcome,
                     upstream_calls |-> validate_session(Self, outcome).upstream_calls,
                     ret |-> validate_session(Self, outcome).ret]
    /\ UNCHANGED <<now, postVars, storyVars>>
    /\ UNCHANGED <<following_cache, jobs>>

\* _retry_with_backoff is entered
RetryWithBackoff(max_retries) ==
    /\ call.pc # "running"
    /\ reauth_attempts < MaxReauthAttempts
    /\ call' = new_call(max_retries)
    /\ last_call' = [op |-> "_retry_with_backoff"]
    /\ UNCHANGED <<now, postVars, storyVars>>
    /\ UNCHANGED <<following_cache, jobs>>
    /\ UNCHANGED <<is_authenticated, reauth_attempts, reauth_successes, reauth_failures>>

\* one iteration of the retry loop
RetryIteration(outcome, login_outcome) ==
    /\ call.pc = "running"
    /\ SetSelf(retry_iteration(Self, outcome, login_outcome))
    /\ last_call' = [op |-> "_retry_with_backoff"]
    /\ UNCHANGED <<now, postVars, storyVars>>
    /\ UNCHANGED <<following_cache, jobs>>

\* the steady-state step following_manager.get_following_list(refresh); login_outcome
\* is what login() does if refresh_following_list finds the client unauthenticated
GetFollowingList(refresh, login_outcome, upstream, db_error) ==
    LET listed == get_following_list(following_cache,
                                     referencing_rows(account_activity, story_activity),
                                     refresh, is_authenticated, login_outcome # Returns,
                                     upstream, db_error, now)
    IN  /\ initialized
        /\ call.pc # "running"
        /\ UNCHANGED jobs
        /\ following_cache' = listed.table
        /\ is_authenticated' = listed.authenticated
        /\ last_call' = [op |-> "get_following_list",
                         refresh |-> refresh,
                         cache_before |-> following_cache,
                         tracked_before |-> DOMAIN account_activity,
                         cache_age |-> get_following_cache_age(following_cache, now),
                         upstream |-> upstream,
                         db_error |-> db_error,
                         refreshed |-> listed.refreshed,
                         login_calls |-> listed.login_calls,
                         user_following_calls |-> listed.user_following_calls,
                         ret |-> listed.ret]
        /\ UNCHANGED <<now, postVars, storyVars>>
        /\ UNCHANGED <<reauth_attempts, reauth_successes, reauth_failures, call>>

\* a steady-state run of _smart_polling_sync that is given up at the re-login: the run's
\* own client has logged in, increment_cycle has run, validate_session (outcome is what
\* its upstream call does) returns False, and login() then raises
RunReloginFailed(outcome, login_outcome) ==
    LET validated == validate_session([Self EXCEPT !.is_authenticated = TRUE], outcome)
    IN  /\ initialized
        /\ current_cycle < MaxCycle
        /\ ~validated.ret
        /\ login(validated.self, login_outcome).is_authenticated = FALSE
        /\ current_cycle' = current_cycle + 1
        /\ runs' = runs + 1
        /\ last_call' = [op |-> "run_relogin_failed", outcome |-> outcome,
                         login_outcome |-> login_outcome]
        /\ UNCHANGED <<now, account_activity, initialized, storyVars>>
        /\ UNCHANGED <<following_cache, jobs>>
        /\ UNCHANGED clientVars

----------------------------------------------------------------------------
(* The poll loop of a steady-state run, and check_account_for_new_posts *)

\* what the upstream calls of one check at time t do, for an account whose latest known
\* post has the date last_post_date: user_info raises or reports media_count; the fetch
\* of the latest post raises, returns nothing, the post already known or a post
\* priority_high_days old; the fetch of the recent posts raises or returns them
CheckOutcomes(last_post_date, t) ==
    {[user_info_raised |-> TRUE, media_count |-> 0, latest_raised |-> FALSE,
      latest_post_date |-> None, recent_raised |-> FALSE]}
    \cup {[user_info_raised |-> FALSE, media_count |-> 0, latest_raised |-> FALSE,
           latest_post_date |-> None, recent_raised |-> FALSE]}
    \cup {[user_info_raised |-> FALSE, media_count |-> 1, latest_raised |-> r,
           latest_post_date |-> None, recent_raised |-> FALSE] : r \in BOOLEAN}
    \cup {[user_info_raised |-> FALSE, media_count |-> 1, latest_raised |-> FALSE,
           latest_post_date |-> x, recent_raised |-> r] :
              x \in ({last_post_date} \ {None}) \cup {Some(t - 24 * priority_high_days)},
              r \in BOOLEAN}

\* check_account_for_new_posts: raises LoginRequired on an unauthenticated client;
\* otherwise _check catches every exception of its upstream calls and returns, so the
\* executor that wraps it sees no failure.  failed says whether an upstream call raised.
check_account_for_new_posts(authenticated, last_known_post_id, o) ==
    LET metadata(latest_post_date) ==
            [media_count |-> Some(o.media_count),
             latest_post_id |-> post_id(latest_post_date),
             latest_post_date |-> latest_post_date]
        result(has_new, posts, latest_post_date, failed) ==
            [raised |-> FALSE, has_new |-> has_new, posts |-> posts,
             metadata |-> metadata(latest_post_date), failed |-> failed]
    IN  IF ~authenticated
        THEN [raised |-> TRUE, has_new |-> FALSE, posts |-> FALSE,
              metadata |-> metadata(None), failed |-> TRUE]
        ELSE IF o.user_info_raised THEN result(FALSE, FALSE, None, TRUE)
        ELSE IF o.media_count = 0 THEN result(FALSE, FALSE, None, FALSE)
        ELSE IF o.latest_raised THEN result(FALSE, FALSE, None, TRUE)
        ELSE IF o.latest_post_date = None THEN result(FALSE, FALSE, None, FALSE)
        ELSE IF /\ last_known_post_id # None
                /\ post_id(o.latest_post_date) = last_known_post_id
        THEN result(FALSE, FALSE, o.latest_post_date, FALSE)
        ELSE IF o.recent_raised THEN result(TRUE, FALSE, o.latest_post_date, TRUE)
        ELSE result(TRUE, TRUE, o.latest_post_date, FALSE)

\* for activity in accounts_to_poll: check, then update_account_priority; an exception is
\* logged and the loop goes on.  activities are the rows as the selection read them.
RECURSIVE poll_accounts(_, _, _, _, _, _)
poll_accounts(table, accounts_to_poll, activities, authenticated, outcomes, t) ==
    IF accounts_to_poll = <<>> THEN [table |-> table, checked |-> <<>>]
    ELSE LET user_id == Head(accounts_to_poll)
             check == check_account_for_new_posts(
                          authenticated, activities[user_id].last_post_id,
                          outcomes[user_id])
             rest == poll_accounts(
                         IF check.raised THEN table
                         ELSE update_account_priority(
                                  table, user_id, activities[user_id].username,
                                  check.has_new, check.metadata, t),
                         Tail(accounts_to_poll), activities, authenticated, outcomes, t)
         IN  [table |-> rest.table, checked |-> <<user_id>> \o rest.checked]

\* the accounts whose check met a failure: it raised, or one of its upstream calls did
failed_checks(accounts_to_poll, activities, authenticated, outcomes) ==
    {u \in Range(accounts_to_poll) :
        check_account_for_new_posts(authenticated, activities[u].last_post_id,
                                    outcomes[u]).failed}

\* the poll loop of one steady-state run over the accounts selected for this cycle
PollLoop(accounts_to_poll, outcomes) ==
    /\ initialized
    /\ accounts_to_poll # <<>>
    /\ call.pc # "running"
    /\ \A u \in Range(accounts_to_poll) :
          \/ check_account_for_new_posts(is_authenticated,
                                         account_activity[u].last_post_id,
                                         outcomes[u]).has_new
          \/ account_activity[u].consecutive_no_new_posts < MaxConsecutive
    /\ account_activity' =
           poll_accounts(account_activity, accounts_to_poll, account_activity,
                         is_authenticated, outcomes, now).table
    /\ last_call' = [op |-> "poll_loop",
                     accounts_to_poll |-> accounts_to_poll,
                     failed |-> failed_checks(accounts_to_poll, account_activity,
                                              is_authenticated, outcomes),
                     checked |-> poll_accounts(account_activity, accounts_to_poll,
                                               account_activity, is_authenticated,
                                               outcomes, now).checked]
    /\ UNCHANGED <<now, initialized, current_cycle, runs, storyVars>>
    /\ UNCHANGED <<following_cache, jobs>>
    /\ UNCHANGED clientVars

----------------------------------------------------------------------------

\* the state after construction: an empty database
\* the two jobs init_scheduler registers: the run at startup and the interval job
JobIds == {"instagram_sync_startup", "instagram_sync"}

\* a job that is not running; current_cycle is the attribute of the run's own
\* AccountPollingManager, started counts the runs of the job
no_job == [pc |-> "idle", current_cycle |-> 0, started |-> 0]

no_jobs == [j \in JobIds |-> no_job]

Init ==
    /\ now = 0
    /\ account_activity = <<>>
    /\ initialized = FALSE
    /\ current_cycle = 0
    /\ runs = 0
    /\ story_activity = <<>>
    /\ story_cycle = 0
    /\ last_mute_refresh = None
    /\ following_cache = <<>>
    /\ is_authenticated = FALSE
    /\ reauth_attempts = 0
    /\ reauth_successes = 0
    /\ reauth_failures = 0
    /\ call = no_call
    /\ jobs = no_jobs
    /\ last_call = [op |-> "init"]

\* what a refresh of the following list can meet; nothing is drawn when the cache is
\* fresh and no refresh takes place
RefreshInputs(refresh) ==
    IF refresh \/ ~is_cache_fresh(following_cache, now)
    THEN {[upstream |-> x, db_error |-> FALSE] : x \in UpstreamFollowing}
         \cup {[upstream |-> [raised |-> FALSE, following |-> UserIds], db_error |-> TRUE]}
    ELSE {[upstream |-> [raised |-> TRUE, following |-> {}], db_error |-> FALSE]}

\* MAX_ACCOUNTS_TO_FETCH: 0 (unlimited), or a limit below the number of accounts
FetchLimits == {0, Cardinality(UserIds) - 1}

\* a run that finds is_first_sync() true
DoColdStart ==
    /\ ~initialized
    /\ \E max_accounts_to_fetch \in FetchLimits, db_error \in BOOLEAN :
          \E r \in RefreshInputs(FALSE) :
              \E accounts \in {cold_start_accounts(max_accounts_to_fetch, r.upstream,
                                                   r.db_error)} :
                  \E posts_by_account \in ProbeResults(accounts, now) :
                      \E probe_raised \in
                              SUBSET {u \in accounts :
                                         posts_by_account[username_of[u]] = {}} :
                          ColdStart(max_accounts_to_fetch, r.upstream, r.db_error,
                                    db_error, posts_by_account, probe_raised)

DoRunReloginFailed ==
    \E outcome \in FuncOutcomes, login_outcome \in LoginOutcomes :
        RunReloginFailed(outcome, login_outcome)

DoGetFollowingList ==
    \E refresh \in BOOLEAN, login_outcome \in LoginOutcomes :
        \E r \in RefreshInputs(refresh) :
            GetFollowingList(refresh, login_outcome, r.upstream, r.db_error)

DoSyncFollowing == sync_following_with_activity(DOMAIN following_cache)

\* the loop runs over what get_accounts_to_poll_this_cycle has just returned
DoPollLoop ==
    /\ initialized
    /\ \E max_accounts \in FetchLimits :
          \E all_activities \in get_all_account_activity(account_activity) :
              \E outcomes \in
                      {f \in [DOMAIN account_activity ->
                                 UNION {CheckOutcomes(account_activity[u].last_post_date, now)
                                            : u \in DOMAIN account_activity}] :
                          \A u \in DOMAIN account_activity :
                              f[u] \in CheckOutcomes(account_activity[u].last_post_date,
                                                     now)} :
                  PollLoop(get_accounts_to_poll_this_cycle(
                               account_activity, current_cycle, all_activities,
                               max_accounts),
                           outcomes)

DoSelectAccounts ==
    \E max_accounts \in 0..MaxCap :
        \E all_activities \in get_all_account_activity(account_activity) :
            SelectAccounts(max_accounts, all_activities)

DoStoryInitializeProfiles ==
    \E accounts \in SUBSET UserIds :
        \E is_muted \in [UserIds -> BOOLEAN] :
            StoryInitializeProfiles(accounts, is_muted)

DoStorySelectAccounts ==
    \E max_accounts \in 0..MaxCap :
        \E unmuted_accounts \in get_unmuted_accounts_for_stories(story_activity) :
            StorySelectAccounts(max_accounts, unmuted_accounts)

DoStoryUpdateAfterCheck ==
    \E user_id \in UserIds, has_new_stories \in BOOLEAN :
        \E story_metadata \in StoryMetadata(now) :
            StoryUpdateAfterCheck(user_id, has_new_stories, story_metadata)

DoRefreshMuteStatuses ==
    \E is_muted \in [UserIds -> BOOLEAN] : RefreshMuteStatuses(is_muted)

DoLogin == \E login_outcome \in LoginOutcomes : Login(login_outcome)

DoValidateSession == \E outcome \in FuncOutcomes : ValidateSession(outcome)

DoRetryWithBackoff == \E max_retries \in 1..MaxRetries : RetryWithBackoff(max_retries)

DoRetryIteration ==
    \E outcome \in FuncOutcomes :
        \E login_outcome \in LoginOutcomes : RetryIteration(outcome, login_outcome)

DoUpdateAccountPriority ==
    \E user_id \in UserIds, has_new_posts \in BOOLEAN :
        \E metadata \in Metadata(now) :
            UpdateAccountPriority(user_id, has_new_posts, metadata)

Next ==
    \/ Tick
    \/ DoColdStart
    \/ RunLoginFailed
    \/ DoRunReloginFailed
    \/ increment_cycle
    \/ DoGetFollowingList
    \/ DoSyncFollowing
    \/ DoSelectAccounts
    \/ DoPollLoop
    \/ DoUpdateAccountPriority
    \/ DoStoryInitializeProfiles
    \/ story_increment_cycle
    \/ DoStorySelectAccounts
    \/ DoStoryUpdateAfterCheck
    \/ ShouldRefreshMuteStatuses
    \/ DoRefreshMuteStatuses
    \/ DoLogin
    \/ DoValidateSession
    \/ DoRetryWithBackoff
    \/ DoRetryIteration

\* both schedulers and the client, from an empty database and a new client
Spec == Init /\ [][Next]_vars

(* The scheduler explored by parts.  Before the initialized flag is set only   *)
(* cold starts happen; afterwards the steady-state steps run on whatever rows  *)
(* the table holds, so the parts below start from a bounded set of tables.     *)

NextColdStart == Tick \/ DoColdStart \/ RunLoginFailed

NextRuns == Tick \/ DoColdStart \/ RunLoginFailed \/ DoRunReloginFailed \/ increment_cycle

\* Orchestrator runs from an empty database: cold starts until one succeeds, then cycles
SpecRuns == Init /\ [][NextRuns]_vars

SpecColdStart == Init /\ [][NextColdStart]_vars

\* a row as cold start or a new follow leaves it, with the given tier and times
Row(user_id, poll_priority, last_post_date, last_checked, created_at) ==
    [username |-> username_of[user_id],
     media_count |-> IF last_post_date = None THEN 0 ELSE 1,
     last_post_id |-> post_id(last_post_date),
     last_post_date |-> last_post_date,
     last_checked |-> last_checked,
     poll_priority |-> poll_priority,
     consecutive_no_new_posts |-> 0,
     created_at |-> created_at]

\* tables of an initialized scheduler: any tracked accounts, any tiers, checked at 0 or 12
InitSelect ==
    /\ now = 2 * TickHours
    /\ \E tracked \in SUBSET UserIds :
          account_activity \in
              [tracked -> UNION {{Row(u, p, None, c, 0) : p \in Tiers, c \in {0, TickHours}}
                                 : u \in tracked}]
    /\ \A u \in DOMAIN account_activity : account_activity[u].username = username_of[u]
    /\ initialized = TRUE
    /\ current_cycle = 0
    /\ runs = 0
    /\ story_activity = <<>>
    /\ story_cycle = 0
    /\ last_mute_refresh = None
    /\ following_cache = following_rows(DOMAIN account_activity \cup DOMAIN story_activity, 0)
    /\ is_authenticated = FALSE
    /\ reauth_attempts = 0
    /\ reauth_successes = 0
    /\ reauth_failures = 0
    /\ call = no_call
    /\ jobs = no_jobs
    /\ last_call = [op |-> "init"]

NextSelect == increment_cycle \/ DoSelectAccounts

SpecSelect == InitSelect /\ [][NextSelect]_vars

\* one tracked account, as a cold start or the registration of a new follow has just
\* created it
InitRefine ==
    /\ now = 0
    /\ \E u \in UserIds :
          \/ \E posts_by_account \in ProbeResults({u}, 0) :
                account_activity = initialize_activity_profiles(<<>>, {u}, posts_by_account, 0)
          \/ account_activity = add_new_follows(<<>>, {u}, 0)
    /\ initialized = TRUE
    /\ current_cycle = 0
    /\ runs = 0
    /\ story_activity = <<>>
    /\ story_cycle = 0
    /\ last_mute_refresh = None
    /\ following_cache = following_rows(DOMAIN account_activity \cup DOMAIN story_activity, 0)
    /\ is_authenticated = FALSE
    /\ reauth_attempts = 0
    /\ reauth_successes = 0
    /\ reauth_failures = 0
    /\ call = no_call
    /\ jobs = no_jobs
    /\ last_call = [op |-> "init"]

NextRefine == Tick \/ DoUpdateAccountPriority

SpecRefine == InitRefine /\ [][NextRefine]_vars

----------------------------------------------------------------------------
(* Properties of the post scheduler *)

\* a selection without a cap has just returned
SelectedNoCap ==
    /\ last_call.op = "get_accounts_to_poll_this_cycle"
    /\ last_call.max_accounts = 0

IsOverride(u) == account_activity[u].username \in priority_overrides

\* C1: without a cap, an account outside the override set is returned by
\* get_accounts_to_poll_this_cycle iff the cycle number is a multiple of the cadence of
\* its stored tier (high 1, normal 1, low 3, dormant 12): a low account is skipped at
\* cycles 1 and 2 and selected at 3, a dormant one skipped at 1..11 and selected at 12.
C1_CadenceSelection ==
    SelectedNoCap =>
        \A u \in DOMAIN account_activity :
            ~IsOverride(u) =>
                LET tier == account_activity[u].poll_priority
                    N == IF tier = "high" THEN 1
                         ELSE IF tier = "normal" THEN 1
                         ELSE IF tier = "low" THEN 3
                         ELSE 12
                    returned == u \in Range(last_call.ret)
                IN  /\ returned <=> (current_cycle % N = 0)
                    /\ tier = "low" /\ current_cycle \in {1, 2} => ~returned
                    /\ tier = "low" /\ current_cycle = 3 => returned
                    /\ tier = "dormant" /\ current_cycle \in 1..11 => ~returned
                    /\ tier = "dormant" /\ current_cycle = 12 => returned

\* C1 witness: at cycle 12 a dormant account outside the override set is returned and a
\* low one too, without a cap
C1_Witness ==
    /\ SelectedNoCap
    /\ current_cycle = 12
    /\ \E u \in DOMAIN account_activity :
          /\ ~IsOverride(u)
          /\ account_activity[u].poll_priority = "dormant"
          /\ u \in Range(last_call.ret)

C4_ColdStartTier ==
    last_call.op = "cold_start" =>
        \A u \in last_call.accounts :
            LET posts == last_call.posts_by_account[username_of[u]]
                tier == account_activity[u].poll_priority
                days == (now - Max(posts)) \div 24
            IN  username_of[u] \notin priority_overrides =>
                    /\ tier \in {"normal", "low", "dormant"}
                    /\ posts = {} => tier = "dormant"
                    /\ posts # {} /\ days <= priority_normal_days => tier = "normal"
                    /\ posts # {} /\ days > priority_normal_days
                           /\ days <= priority_low_days => tier = "low"
                    /\ posts # {} /\ days > priority_low_days => tier = "dormant"

\* C4 witness: a cold start has given low to an account whose last post is 180 days old
C4_Witness ==
    /\ last_call.op = "cold_start"
    /\ \E u \in last_call.accounts :
          /\ username_of[u] \notin priority_overrides
          /\ last_call.posts_by_account[username_of[u]] = {now - 24 * priority_low_days}
          /\ account_activity[u].poll_priority = "low"

----------------------------------------------------------------------------
(* The story scheduler *)

\* a story row of the given tier, mute flag and last check
StoryRow(user_id, story_poll_priority, is_muting_stories, last_checked) ==
    [username |-> username_of[user_id],
     is_muting_stories |-> is_muting_stories,
     last_story_id |-> None,
     last_story_date |-> None,
     last_checked |-> last_checked,
     story_poll_priority |-> story_poll_priority,
     consecutive_no_new_stories |-> 0,
     stories_fetched_count |-> 0]

\* story tables with any tracked accounts, tiers and mute flags, checked at 0 or 12
InitStorySelect ==
    /\ now = 2 * TickHours
    /\ account_activity = <<>>
    /\ initialized = FALSE
    /\ current_cycle = 0
    /\ runs = 0
    /\ \E tracked \in SUBSET UserIds :
          story_activity \in
              [tracked -> UNION {{StoryRow(u, p, m, c) :
                                     p \in Tiers, m \in BOOLEAN, c \in {0, TickHours}}
                                 : u \in tracked}]
    /\ \A u \in DOMAIN story_activity : story_activity[u].username = username_of[u]
    /\ story_cycle = 0
    /\ last_mute_refresh = None
    /\ following_cache = following_rows(DOMAIN account_activity \cup DOMAIN story_activity, 0)
    /\ is_authenticated = FALSE
    /\ reauth_attempts = 0
    /\ reauth_successes = 0
    /\ reauth_failures = 0
    /\ call = no_call
    /\ jobs = no_jobs
    /\ last_call = [op |-> "init"]

NextStorySelect == story_increment_cycle \/ DoStorySelectAccounts \/ DoRefreshMuteStatuses

SpecStorySelect == InitStorySelect /\ [][NextStorySelect]_vars

----------------------------------------------------------------------------
(* Properties of the story scheduler *)

\* C3: StoryPollingManager.get_accounts_to_poll_this_cycle never returns an account whose
\* is_muting_stories is true, whatever its tier and cadence and whatever the cap; without
\* a cap an unmuted account is returned iff the cycle number is a multiple of the cadence
\* of its story tier (high 1, normal 1, low 3, dormant 12).
C3_StorySelectionExcludesMuted ==
    last_call.op = "story_get_accounts_to_poll_this_cycle" =>
        \A u \in DOMAIN story_activity :
            LET tier == story_activity[u].story_poll_priority
                N == IF tier = "high" THEN 1
                     ELSE IF tier = "normal" THEN 1
                     ELSE IF tier = "low" THEN 3
                     ELSE 12
                returned == u \in Range(last_call.ret)
            IN  /\ story_activity[u].is_muting_stories => ~returned
                /\ ~story_activity[u].is_muting_stories /\ last_call.max_accounts = 0
                       => (returned <=> story_cycle % N = 0)

\* C3 witness: at cycle 3, without a cap, a muted high account is left out and an unmuted
\* low account is returned
C3_Witness ==
    /\ last_call.op = "story_get_accounts_to_poll_this_cycle"
    /\ last_call.max_accounts = 0
    /\ story_cycle = 3
    /\ \E u, v \in DOMAIN story_activity :
          /\ story_activity[u].is_muting_stories
          /\ story_activity[u].story_poll_priority = "high"
          /\ u \notin Range(last_call.ret)
          /\ ~story_activity[v].is_muting_stories
          /\ story_activity[v].story_poll_priority = "low"
          /\ v \in Range(last_call.ret)

\* update_account_priority has just run on the existing row of account u
Updated(u) ==
    /\ last_call.op = "update_account_priority"
    /\ last_call.user_id = u
    /\ u \in DOMAIN account_activity

\* C5: while fewer than 24 hours have elapsed since created_at, update_account_priority
\* leaves the stored tier unchanged for every poll result, new posts of any date and
\* override accounts included.
C5_NoChangeInObservationWindow ==
    [][\A u \in DOMAIN account_activity :
          (/\ last_call'.op = "update_account_priority"
           /\ last_call'.user_id = u
           /\ now - account_activity[u].created_at < 24)
          => account_activity'[u].poll_priority = account_activity[u].poll_priority]_vars

\* C5 witness: 12 hours after its creation an account stored as dormant has been updated
\* with a new post 7 days old, and is still dormant
C5_Witness ==
    \E u \in DOMAIN account_activity :
        /\ Updated(u)
        /\ last_call.has_new_posts
        /\ last_call.metadata.latest_post_date = Some(now - 24 * priority_high_days)
        /\ account_activity[u].last_post_date = Some(now - 24 * priority_high_days)
        /\ now - account_activity[u].created_at = 12
        /\ account_activity[u].poll_priority = "dormant"

\* C6: for an account outside the override set whose row is at least 24 hours old, a poll
\* that reports new posts with a known latest date stores the tier of the age d of that
\* post alone: d <= high_days high, d <= normal_days normal, d <= low_days low, d >
\* low_days dormant, whatever last_post_date the row held before.
C6_NewPostDecidesTier ==
    \A u \in DOMAIN account_activity :
        (/\ Updated(u)
         /\ ~IsOverride(u)
         /\ now - account_activity[u].created_at >= 24
         /\ last_call.has_new_posts
         /\ last_call.metadata.latest_post_date # None)
        => LET d == (now - Val(last_call.metadata.latest_post_date)) \div 24
               tier == account_activity[u].poll_priority
           IN  tier = IF d <= priority_high_days THEN "high"
                      ELSE IF d <= priority_normal_days THEN "normal"
                      ELSE IF d <= priority_low_days THEN "low"
                      ELSE "dormant"

\* C7: for an account outside the override set whose row is at least 24 hours old, a poll
\* without new posts stores the tier of the last_post_date on record (<= high_days high,
\* <= normal_days normal, <= low_days low, otherwise dormant), dormant when there is none.
C7_NoNewPostsTierFromRecord ==
    \A u \in DOMAIN account_activity :
        (/\ Updated(u)
         /\ ~IsOverride(u)
         /\ now - account_activity[u].created_at >= 24
         /\ ~last_call.has_new_posts)
        => LET date == account_activity[u].last_post_date
               d == (now - Val(date)) \div 24
               tier == account_activity[u].poll_priority
           IN  IF date = None THEN tier = "dormant"
               ELSE tier = IF d <= priority_high_days THEN "high"
                           ELSE IF d <= priority_normal_days THEN "normal"
                           ELSE IF d <= priority_low_days THEN "low"
                           ELSE "dormant"

\* C7 witness: a day after a cold start that stored normal for a post 30 days old, a poll
\* without new posts has stored low
C7_Witness ==
    \E u \in DOMAIN account_activity :
        /\ Updated(u)
        /\ ~IsOverride(u)
        /\ ~last_call.has_new_posts
        /\ now - account_activity[u].created_at = 24
        /\ account_activity[u].last_post_date =
               Some(account_activity[u].created_at - 24 * priority_normal_days)
        /\ account_activity[u].poll_priority = "low"

----------------------------------------------------------------------------
(* The executor *)

NextExec == DoLogin \/ DoValidateSession \/ DoRetryWithBackoff \/ DoRetryIteration

\* executor calls on a new client
SpecExec == Init /\ [][NextExec]_vars

----------------------------------------------------------------------------
(* Properties of the executor *)

\* transient client/network errors and rate-limit signals that are not 401-shaped
TransientOrRateLimit ==
    {ClientError, ConnectionError, PleaseWaitFewMinutes(Some(429)),
     PleaseWaitFewMinutes(None)}

\* C8: in an executor call whose outcomes so far are only transient client/network errors
\* and genuine rate-limit signals (and a success), the operation has been attempted at most
\* max_retries times and never again after a success; the call has returned iff the last
\* attempt succeeded, and then it returns that first success; it has raised iff max_retries
\* attempts were made and the last one failed, and then it raises the error of that last
\* attempt.
C8_RetryBudget ==
    (/\ call.pc # "idle"
     /\ \A i \in DOMAIN call.outcomes :
            call.outcomes[i] \in TransientOrRateLimit \cup {Returns})
    => LET n == Len(call.outcomes)
       IN  /\ call.attempts = n
           /\ n <= call.max_retries
           /\ \A i \in 1..(n - 1) : call.outcomes[i] # Returns
           /\ call.pc = "returned" <=> (n >= 1 /\ call.outcomes[n] = Returns)
           /\ call.pc = "returned" => call.result = Some(n)
           /\ call.pc = "raised" <=> (n = call.max_retries /\ call.outcomes[n] # Returns)
           /\ call.pc = "raised" => call.error = Some(Raised(call.outcomes[n], "func", n))

\* C8 witness: with max_retries = 3, two rate-limit failures and then a success: the call
\* has returned after exactly 3 attempts
C8_Witness ==
    /\ call.pc = "returned"
    /\ call.max_retries = 3
    /\ call.outcomes = <<PleaseWaitFewMinutes(Some(429)), PleaseWaitFewMinutes(Some(429)),
                         Returns>>
    /\ call.attempts = 3
    /\ call.result = Some(3)

\* C9: when an attempt of the wrapped operation raises an error that is neither a
\* client/network error, a rate-limit signal nor a login-required signal, that attempt
\* ends the call: the call raises that very error, with no sleep, no login and no change of
\* the session or of the re-authentication counters; when it is the first outcome of the
\* call the operation has been attempted exactly once and nothing was slept.
C9_UnexpectedErrorRaisedImmediately ==
    [][(/\ call.pc = "running"
        /\ Len(call'.outcomes) = Len(call.outcomes) + 1
        /\ call'.outcomes[Len(call'.outcomes)] = UnexpectedError)
       => /\ call'.pc = "raised"
          /\ call'.error = Some(Raised(UnexpectedError, "func", call.attempts + 1))
          /\ call'.attempts = call.attempts + 1
          /\ call'.sleeps = call.sleeps
          /\ call'.login_results = call.login_results
          /\ UNCHANGED <<is_authenticated, reauth_attempts, reauth_successes,
                         reauth_failures>>
          /\ call.attempts = 0 =>
                 /\ call'.attempts = 1
                 /\ call'.sleeps = <<>>
                 /\ call'.login_results = <<>>]_vars

\* C9 witness: a call whose first attempt raised an unexpected error has raised it after
\* one attempt, without sleeping and without logging in
C9_Witness ==
    /\ call.pc = "raised"
    /\ call.outcomes = <<UnexpectedError>>
    /\ call.error = Some(Raised(UnexpectedError, "func", 1))
    /\ call.attempts = 1
    /\ call.sleeps = <<>>
    /\ call.login_results = <<>>

\* C10: within one executor call login() is called at most once, whatever the outcomes;
\* if that login fails the call has raised the login's error, and the last attempt of the
\* operation is the one that signalled the session expiry.
C10_ReauthAtMostOnce ==
    /\ Len(call.login_results) <= 1
    /\ \A i \in DOMAIN call.login_results :
           call.login_results[i] # Returns =>
               /\ call.pc = "raised"
               /\ call.error = Some(Raised(call.login_results[i], "login", call.attempts))
               /\ Len(call.outcomes) = call.attempts
               /\ is_authentication_error(call.outcomes[call.attempts])

\* C10 witness: a call that has seen a login-required exception and a 401-shaped
\* rate-limit exception, and has logged in once
C10_Witness ==
    /\ call.login_results = <<Returns>>
    /\ \E i, j \in DOMAIN call.outcomes :
           /\ i # j
           /\ call.outcomes[i] = LoginRequired
           /\ call.outcomes[j] = PleaseWaitFewMinutes(Some(401))

\* the call has left the retry loop with its budget used up: "raise last_exception"
BudgetExhausted ==
    /\ call.pc = "raised"
    /\ \/ call.error = Some(NoAttemptsMade)
       \/ /\ Val(call.error).raised_by = "func"
          /\ Val(call.error).exception.type \in
                 {"ClientError", "ConnectionError", "PleaseWaitFewMinutes"}

\* C11: a successful re-authentication does not use up a slot of the retry budget: a call
\* that re-authenticated successfully gives up for lack of budget only after max_retries
\* attempts beside the one that signalled the expiry; in particular a call whose only
\* failure so far is one session expiry, followed by a successful login, is still running.
C11_ReauthKeepsBudget ==
    call.login_results = <<Returns>> =>
        /\ BudgetExhausted => call.attempts - 1 = call.max_retries
        /\ (/\ Len(call.outcomes) = 1
            /\ is_authentication_error(call.outcomes[1])) => call.pc = "running"

\* C12: when an attempt raises a session-expiry signal (a 401-shaped rate-limit exception
\* or a login-required exception) after a re-authentication was attempted in the same
\* call, the call raises that signal at that step, without sleeping and without a login.
C12_SecondExpiryRaisedImmediately ==
    [][(/\ call.pc = "running"
        /\ call.auth_retry_attempted
        /\ Len(call'.outcomes) = Len(call.outcomes) + 1
        /\ is_authentication_error(call'.outcomes[Len(call'.outcomes)]))
       => /\ call'.pc = "raised"
          /\ call'.error = Some(Raised(call'.outcomes[Len(call'.outcomes)], "func",
                                       call.attempts + 1))
          /\ call'.sleeps = call.sleeps
          /\ call'.login_results = call.login_results]_vars

\* C13: once an executor call has returned or raised, every re-authentication attempt is
\* counted as exactly one success or one failure:
\* reauth_attempts = reauth_successes + reauth_failures; a call that saw a single
\* 401-shaped failure followed by a successful login leaves the counters of a new client
\* at attempts 1, successes 1, failures 0.
C13_ReauthCountersBalance ==
    call.pc \in {"idle", "returned", "raised"} =>
        reauth_attempts = reauth_successes + reauth_failures

\* C14: validate_session on an authenticated client: after a 401-shaped or login-required
\* failure of the upstream call the client is unauthenticated and false is returned; after a
\* 429-shaped rate-limit failure the client is still authenticated and true is returned; on
\* an unauthenticated client false is returned and upstream is not called.
C14_ValidateSession ==
    last_call.op = "validate_session" =>
        /\ (/\ last_call.was_authenticated
            /\ last_call.outcome \in {PleaseWaitFewMinutes(Some(401)), LoginRequired})
           => /\ ~is_authenticated
              /\ last_call.ret = FALSE
        /\ (/\ last_call.was_authenticated
            /\ last_call.outcome = PleaseWaitFewMinutes(Some(429)))
           => /\ is_authenticated
              /\ last_call.ret = TRUE
        /\ ~last_call.was_authenticated
           => /\ last_call.ret = FALSE
              /\ last_call.upstream_calls = 0
              /\ ~is_authenticated

\* C14 witness: validate_session on an authenticated client met a 401-shaped failure
C14_Witness ==
    /\ last_call.op = "validate_session"
    /\ last_call.was_authenticated
    /\ last_call.outcome = PleaseWaitFewMinutes(Some(401))
    /\ last_call.upstream_calls = 1
    /\ last_call.ret = FALSE
    /\ ~is_authenticated

----------------------------------------------------------------------------
(* Properties of the Orchestrator runs *)

\* the cold start just run probed at least half of its accounts with posts found
HalfWithPosts ==
    LET with_posts == {u \in last_call.accounts :
                          last_call.posts_by_account[username_of[u]] # {}}
    IN  /\ last_call.accounts # {}
        /\ 2 * Cardinality(with_posts) >= Cardinality(last_call.accounts)

\* C15: a run that finds the initialized flag unset is a cold-start run, and it sets the
\* flag iff its success rate (accounts whose probe found posts / accounts considered) is at
\* least 0.5, so after a lower rate the next run is a cold start again; a run that finds
\* the flag set takes the steady-state path (it starts with increment_cycle), leaves the
\* flag set and runs no cold start.
C15_ColdStartRetriedUntilSuccess ==
    [][runs' = runs + 1 /\ last_call'.op # "run_login_failed" =>
           /\ ~initialized =>
                  /\ last_call'.op = "cold_start"
                  /\ initialized' <=> HalfWithPosts'
           /\ initialized =>
                  /\ last_call'.op \in {"increment_cycle", "run_relogin_failed"}
                  /\ current_cycle' = current_cycle + 1
                  /\ initialized'
                  /\ account_activity' = account_activity]_vars

\* C15 witness: the third run is the first steady-state run: of the two runs before it
\* the second was a cold start that reached the success rate, the first one did not
C15_Witness ==
    /\ runs = 3
    /\ initialized
    /\ current_cycle = 1
    /\ last_call.op = "increment_cycle"

\* C16: a cold start over at least one account in which no probe raised sets the
\* initialized flag, however many of the accounts have no posts.
C16_ZeroPostsCountAsSuccess ==
    (/\ last_call.op = "cold_start"
     /\ last_call.accounts # {}
     /\ last_call.probe_raised = {})
    => initialized

\* the tier the cold start gives to an account with these posts
ColdStartTierOf(u, posts) ==
    IF username_of[u] \in priority_overrides THEN "high"
    ELSE IF posts = {} THEN "dormant"
    ELSE IF (now - Max(posts)) \div 24 <= 30 THEN "normal"
    ELSE IF (now - Max(posts)) \div 24 <= 180 THEN "low"
    ELSE "dormant"

\* C17: after a cold-start run, whatever runs came before it, the table holds one row for
\* every account recorded before or considered by this run, and the row of each account of
\* this run holds the tier, media_count, last_post_id, last_post_date computed by this run
\* and consecutive_no_new_posts = 0.
C17_ColdStartIdempotent ==
    last_call.op = "cold_start" =>
        /\ DOMAIN account_activity = last_call.recorded_before \cup last_call.accounts
        /\ \A u \in last_call.accounts :
               LET posts == last_call.posts_by_account[username_of[u]]
                   row == account_activity[u]
               IN  /\ row.username = username_of[u]
                   /\ row.poll_priority = ColdStartTierOf(u, posts)
                   /\ row.media_count = Cardinality(posts)
                   /\ row.last_post_date = IF posts = {} THEN None ELSE Some(Max(posts))
                   /\ row.last_post_id =
                          post_id(IF posts = {} THEN None ELSE Some(Max(posts)))
                   /\ row.consecutive_no_new_posts = 0

\* C17 witness: a second cold start, later than the first, over an account that the first
\* had recorded, now with a post found
C17_Witness ==
    /\ last_call.op = "cold_start"
    /\ runs = 2
    /\ now > 0
    /\ \E u \in last_call.accounts \cap last_call.recorded_before :
           /\ last_call.posts_by_account[username_of[u]] # {}
           /\ account_activity[u].media_count = 1
           /\ account_activity[u].last_checked = now

\* C18: the post cycle counter never decreases and every Orchestrator run that gets past
\* its first login, a cold-start run included, adds exactly one to it, so that it counts
\* those runs.
C18_CycleCountsRuns ==
    [][/\ current_cycle' >= current_cycle
       /\ (runs' = runs + 1 /\ last_call'.op # "run_login_failed")
              => current_cycle' = current_cycle + 1]_vars

----------------------------------------------------------------------------
(* Story refinement *)

\* the account u1 as initialize_story_activity_profiles records it at time 0
InitStoryRefine ==
    /\ now = 0
    /\ account_activity = <<>>
    /\ initialized = FALSE
    /\ current_cycle = 0
    /\ runs = 0
    /\ \E is_muted \in [UserIds -> BOOLEAN] :
          story_activity = initialize_story_activity_profiles(<<>>, {"u1"}, is_muted, 0)
    /\ story_cycle = 0
    /\ last_mute_refresh = None
    /\ following_cache = following_rows(DOMAIN account_activity \cup DOMAIN story_activity, 0)
    /\ is_authenticated = FALSE
    /\ reauth_attempts = 0
    /\ reauth_successes = 0
    /\ reauth_failures = 0
    /\ call = no_call
    /\ jobs = no_jobs
    /\ last_call = [op |-> "init"]

NextStoryRefine == Tick \/ DoStoryUpdateAfterCheck

SpecStoryRefine == InitStoryRefine /\ [][NextStoryRefine]_vars

\* C19: the story tier written by update_account_priority_after_check is this function of
\* has_new_stories, the last_story_date on record before the check, the counter of
\* consecutive checks without new stories after this check, and the age in days of that
\* date: new stories give high; with no date, counter >= 10 dormant, >= 5 low, else normal;
\* age <= 3: counter >= 5 normal, else high; age <= 14: counter >= 7 low, else normal;
\* age <= 90 low; otherwise dormant.
C19_StoryRefinement ==
    [][\A u \in DOMAIN story_activity :
          (/\ last_call'.op = "update_account_priority_after_check"
           /\ last_call'.user_id = u)
          => LET date == story_activity[u].last_story_date
                 counter == story_activity'[u].consecutive_no_new_stories
                 age == (now - Val(date)) \div 24
                 tier == story_activity'[u].story_poll_priority
             IN  /\ tier \in {"high", "normal", "low", "dormant"}
                 /\ tier = IF last_call'.has_new_stories THEN "high"
                           ELSE IF date = None
                           THEN IF counter >= 10 THEN "dormant"
                                ELSE IF counter >= 5 THEN "low"
                                ELSE "normal"
                           ELSE IF age <= 3
                           THEN IF counter >= 5 THEN "normal" ELSE "high"
                           ELSE IF age <= 14
                           THEN IF counter >= 7 THEN "low" ELSE "normal"
                           ELSE IF age <= 90 THEN "low"
                           ELSE "dormant"]_vars

\* C19 witness: the fifth check in a row without new stories of an account whose last
\* story is at most 3 days old has stored normal
C19_Witness ==
    /\ last_call.op = "update_account_priority_after_check"
    /\ ~last_call.has_new_stories
    /\ last_call.user_id \in DOMAIN story_activity
    /\ LET row == story_activity[last_call.user_id]
       IN  /\ row.last_story_date # None
           /\ (now - Val(row.last_story_date)) \div 24 <= 3
           /\ row.consecutive_no_new_stories = 5
           /\ row.story_poll_priority = "normal"

----------------------------------------------------------------------------
(* Properties of the capped selection *)

\* the rank of the tier stored for account u: high < normal < low < dormant
TierRank(u) ==
    LET tier == account_activity[u].poll_priority
    IN  IF tier = "high" THEN 0
        ELSE IF tier = "normal" THEN 1
        ELSE IF tier = "low" THEN 2
        ELSE 3

\* account a has a strictly worse (tier rank, last_checked) key than account b
WorseKey(a, b) ==
    \/ TierRank(a) > TierRank(b)
    \/ /\ TierRank(a) = TierRank(b)
       /\ account_activity[a].last_checked > account_activity[b].last_checked

\* C20: with a cap max_accounts > 0 the selection returns min(max_accounts, |eligible|)
\* distinct eligible accounts, in ascending order of (tier rank, last_checked), and none of
\* them has a strictly worse key than an eligible account left out; with cap 0 or none it
\* returns the whole eligible set.
C20_CappedSelection ==
    last_call.op = "get_accounts_to_poll_this_cycle" =>
        LET ret == last_call.ret
            eligible == last_call.eligible
            cap == last_call.max_accounts
        IN  /\ cap = 0 => ret = eligible
            /\ cap > 0 =>
                   /\ Len(ret) = IF Len(eligible) < cap THEN Len(eligible) ELSE cap
                   /\ Range(ret) \subseteq Range(eligible)
                   /\ \A i, j \in DOMAIN ret : i < j =>
                          /\ ret[i] # ret[j]
                          /\ ~WorseKey(ret[i], ret[j])
                   /\ \A r \in Range(ret) :
                          \A e \in Range(eligible) \ Range(ret) : ~WorseKey(r, e)

\* C20 witness: with cap 1 and two eligible accounts, the one returned has the better tier
\* although the database listed it last
C20_Witness ==
    /\ last_call.op = "get_accounts_to_poll_this_cycle"
    /\ last_call.max_accounts = 1
    /\ Len(last_call.eligible) = 2
    /\ last_call.ret = <<last_call.eligible[2]>>
    /\ TierRank(last_call.eligible[2]) < TierRank(last_call.eligible[1])

----------------------------------------------------------------------------
(* Properties of the capped story selection *)

\* the rank of the story tier stored for account u: high < normal < low < dormant
StoryTierRank(u) ==
    LET tier == story_activity[u].story_poll_priority
    IN  IF tier = "high" THEN 0
        ELSE IF tier = "normal" THEN 1
        ELSE IF tier = "low" THEN 2
        ELSE 3

\* the unmuted accounts whose story tier is due at the current story cycle
StoryEligible ==
    {u \in DOMAIN story_activity :
        /\ ~story_activity[u].is_muting_stories
        /\ story_cycle % story_poll_every_n(story_activity[u].story_poll_priority) = 0}

\* C21: with a cap, the story selection never leaves out an eligible unmuted account of a
\* higher-priority tier while it returns an eligible account of a lower-priority tier.
C21_StoryCapByTier ==
    (/\ last_call.op = "story_get_accounts_to_poll_this_cycle"
     /\ last_call.max_accounts > 0)
    => \A r \in Range(last_call.ret) :
           \A e \in StoryEligible \ Range(last_call.ret) :
               ~(StoryTierRank(e) < StoryTierRank(r))

----------------------------------------------------------------------------
(* New follows *)

NextFollow == Tick \/ DoColdStart \/ DoSyncFollowing

\* an initialized scheduler as cold starts leave it: at least one tracked account, and
\* a following cache written at time 0 that holds every tracked account
InitFollowing ==
    /\ now = 0
    /\ \E tracked \in (SUBSET UserIds) \ {{}} :
          account_activity = [u \in tracked |-> Row(u, "normal", None, 0, 0)]
    /\ initialized = TRUE
    /\ current_cycle = 0
    /\ runs = 0
    /\ story_activity = <<>>
    /\ story_cycle = 0
    /\ last_mute_refresh = None
    /\ \E cached \in SUBSET UserIds :
          /\ DOMAIN account_activity \subseteq cached
          /\ following_cache = following_rows(cached, 0)
    /\ is_authenticated = FALSE
    /\ reauth_attempts = 0
    /\ reauth_successes = 0
    /\ reauth_failures = 0
    /\ call = no_call
    /\ jobs = no_jobs
    /\ last_call = [op |-> "init"]

NextFollowing == Tick \/ DoGetFollowingList

\* steady-state runs that ask for the following list
SpecFollowing == InitFollowing /\ [][NextFollowing]_vars


\* cold starts, then steady-state runs that register newly followed accounts
SpecFollow == Init /\ [][NextFollow]_vars

\* C22: in every state, after a cold start, the registration of a newly followed account
\* or a refinement, the record of an account whose username is in the override set has
\* the stored tier high.
C22_OverrideStoredHigh ==
    \A u \in DOMAIN account_activity :
        account_activity[u].username \in priority_overrides
            => account_activity[u].poll_priority = "high"

\* C25: after a following-list refresh whose upstream call returned and whose write met
\* no other database error, made while activity records exist, the following cache
\* holds exactly the accounts upstream returned and every account tracked before still
\* has its activity record.
C25_RefreshReplacesCacheKeepsActivity ==
    (/\ last_call.op = "get_following_list"
     /\ last_call.user_following_calls = 1
     /\ ~last_call.upstream.raised
     /\ ~last_call.db_error
     /\ last_call.tracked_before # {})
    => /\ DOMAIN following_cache = last_call.upstream.following
       /\ last_call.tracked_before \subseteq DOMAIN account_activity

----------------------------------------------------------------------------
(* The poll loop *)

\* two tracked accounts as a cold start at time 0 has left them, each with no post or a
\* post priority_normal_days old, and a logged-in client
InitPoll ==
    /\ now = 0
    /\ \E posts_by_account \in
              [{username_of[u] : u \in UserIds} ->
                  {{}, {0 - 24 * priority_normal_days}}] :
          account_activity =
              initialize_activity_profiles(<<>>, UserIds, posts_by_account, 0)
    /\ initialized = TRUE
    /\ current_cycle = 0
    /\ runs = 0
    /\ story_activity = <<>>
    /\ story_cycle = 0
    /\ last_mute_refresh = None
    /\ following_cache = following_rows(UserIds, 0)
    /\ is_authenticated = TRUE
    /\ reauth_attempts = 0
    /\ reauth_successes = 0
    /\ reauth_failures = 0
    /\ call = no_call
    /\ jobs = no_jobs
    /\ last_call = [op |-> "init"]

NextPoll == DoPollLoop

\* steady-state cycles: the poll loop over the accounts selected
SpecPoll == InitPoll /\ [][NextPoll]_vars

\* C23: in the poll loop of a cycle, every selected account whose check failed keeps
\* the activity record it had before the loop, and every selected account is checked.
C23_FailedCheckLeavesState ==
    [][last_call'.op = "poll_loop" =>
           /\ \A u \in last_call'.failed : account_activity'[u] = account_activity[u]
           /\ last_call'.checked = last_call'.accounts_to_poll]_vars

\* C24: a run given up because authentication failed, at the first login or at the
\* re-login after a failed session validation, leaves the cycle counter, the initialized
\* flag and every activity record as they were before the run.
C24_AuthFailureChangesNothing ==
    [][last_call'.op \in {"run_login_failed", "run_relogin_failed"} =>
           /\ current_cycle' = current_cycle
           /\ initialized' = initialized
           /\ account_activity' = account_activity]_vars

----------------------------------------------------------------------------
(* The tiers stored by both schedulers *)

\* one day after one account was recorded: in account_activity by a cold start or as a
\* new follow, or in account_story_activity by initialize_story_activity_profiles
InitTiers ==
    /\ now = 2 * TickHours
    /\ \/ /\ \E u \in UserIds :
                \/ \E posts_by_account \in ProbeResults({u}, 0) :
                      account_activity =
                          initialize_activity_profiles(<<>>, {u}, posts_by_account, 0)
                \/ account_activity = add_new_follows(<<>>, {u}, 0)
          /\ story_activity = <<>>
       \/ /\ account_activity = <<>>
          /\ \E u \in UserIds, is_muted \in [UserIds -> BOOLEAN] :
                story_activity = initialize_story_activity_profiles(<<>>, {u}, is_muted, 0)
    /\ initialized = TRUE
    /\ current_cycle = 0
    /\ runs = 0
    /\ story_cycle = 0
    /\ last_mute_refresh = None
    /\ following_cache = following_rows(DOMAIN account_activity \cup DOMAIN story_activity, 0)
    /\ is_authenticated = FALSE
    /\ reauth_attempts = 0
    /\ reauth_successes = 0
    /\ reauth_failures = 0
    /\ call = no_call
    /\ jobs = no_jobs
    /\ last_call = [op |-> "init"]

\* a post check of a tracked account
DoUpdateTracked ==
    \E user_id \in DOMAIN account_activity, has_new_posts \in BOOLEAN :
        \E metadata \in Metadata(now) :
            UpdateAccountPriority(user_id, has_new_posts, metadata)

\* a story check of a tracked account
DoStoryUpdateTracked ==
    \E user_id \in DOMAIN story_activity, has_new_stories \in BOOLEAN :
        \E story_metadata \in StoryMetadata(now) :
            StoryUpdateAfterCheck(user_id, has_new_stories, story_metadata)

\* a mute refresh over the tracked story accounts
DoRefreshMuteTracked ==
    /\ DOMAIN story_activity # {}
    /\ \E is_muted \in [UserIds -> BOOLEAN] : RefreshMuteStatuses(is_muted)

NextTiers == DoUpdateTracked \/ DoStoryUpdateTracked \/ DoRefreshMuteTracked

\* post checks, story checks and mute refreshes on a record one day old
SpecTiers == InitTiers /\ [][NextTiers]_vars

\* C27: every stored post tier and every stored story tier is one of high, normal, low
\* and dormant.
C27_TiersAreTiers ==
    /\ \A u \in DOMAIN account_activity : account_activity[u].poll_priority \in Tiers
    /\ \A u \in DOMAIN story_activity : story_activity[u].story_poll_priority \in Tiers

\* C27 witness: a post check after the observation window has moved an account that was
\* registered as a new follow from normal to dormant
C27_Witness ==
    /\ last_call.op = "update_account_priority"
    /\ last_call.user_id \in DOMAIN account_activity
    /\ account_activity[last_call.user_id].last_post_date = None
    /\ account_activity[last_call.user_id].poll_priority = "dormant"
    /\ account_activity[last_call.user_id].media_count = 0
    /\ account_activity[last_call.user_id].consecutive_no_new_posts = 1

----------------------------------------------------------------------------
(* Mute refresh *)

\* one post record and any story records at time 0, with no refresh time stored, one
\* stored at time 0, or a text that is no date
InitMute ==
    /\ now = 0
    /\ account_activity = add_new_follows(<<>>, {"u1"}, 0)
    /\ initialized = TRUE
    /\ current_cycle = 0
    /\ runs = 0
    /\ \E tracked \in SUBSET UserIds :
          story_activity \in
              [tracked -> UNION {{StoryRow(u, "normal", m, 0) : m \in BOOLEAN}
                                 : u \in tracked}]
    /\ \A u \in DOMAIN story_activity : story_activity[u].username = username_of[u]
    /\ story_cycle = 0
    /\ last_mute_refresh \in {None, Some(isoformat(0)), Some(NotIsoText)}
    /\ following_cache = following_rows(UserIds, 0)
    /\ is_authenticated = FALSE
    /\ reauth_attempts = 0
    /\ reauth_successes = 0
    /\ reauth_failures = 0
    /\ call = no_call
    /\ jobs = no_jobs
    /\ last_call = [op |-> "init"]

NextMute == Tick \/ ShouldRefreshMuteStatuses \/ DoRefreshMuteStatuses

SpecMute == InitMute /\ [][NextMute]_vars

\* C28: should_refresh_mute_statuses answers true exactly when no refresh time is stored,
\* the stored text is no date, or at least mute_refresh_hours have passed since it;
\* refresh_mute_statuses leaves every tracked story account with the mute flag upstream
\* reports and all its other fields as they were, stores the current time as the last
\* refresh, and changes no post record.
C28_MuteRefresh ==
    [][/\ last_call'.op = "should_refresh_mute_statuses" =>
              (last_call'.ret <=>
                   \/ last_mute_refresh = None
                   \/ ~Val(last_mute_refresh).iso
                   \/ now - Val(last_mute_refresh).hours >= mute_refresh_hours)
       /\ last_call'.op = "refresh_mute_statuses" =>
              /\ DOMAIN story_activity' = DOMAIN story_activity
              /\ \A u \in DOMAIN story_activity :
                    /\ story_activity'[u].is_muting_stories = last_call'.is_muted[u]
                    /\ \A f \in (DOMAIN story_activity[u]) \ {"is_muting_stories"} :
                          story_activity'[u][f] = story_activity[u][f]
              /\ last_mute_refresh' = Some(isoformat(now))
              /\ account_activity' = account_activity]_vars

\* C28 witness: a refresh at time TickHours stored that time and muted alice's stories;
\* one tick later should_refresh_mute_statuses answers that no refresh is due
C28_Witness ==
    /\ last_call.op = "should_refresh_mute_statuses"
    /\ ~last_call.ret
    /\ last_mute_refresh = Some(isoformat(TickHours))
    /\ now = 2 * TickHours
    /\ "u1" \in DOMAIN story_activity
    /\ story_activity["u1"].is_muting_stories

\* a rate-limit signal that is not 401-shaped
GenuineRateLimit(outcome) ==
    /\ outcome.type = "PleaseWaitFewMinutes"
    /\ outcome.status_code # Some(401)

\* C29: an iteration of an executor call that meets a genuine rate-limit signal leaves
\* the authenticated flag and the three reauth counters as they were and calls no
\* login; so does every call that meets only such signals.
C29_RateLimitKeepsSession ==
    [][(/\ call.pc = "running"
        /\ Len(call'.outcomes) = Len(call.outcomes) + 1
        /\ GenuineRateLimit(call'.outcomes[Len(call'.outcomes)]))
       => /\ is_authenticated' = is_authenticated
          /\ reauth_attempts' = reauth_attempts
          /\ reauth_successes' = reauth_successes
          /\ reauth_failures' = reauth_failures
          /\ call'.login_results = call.login_results]_vars

\* C29 witness: a call on a logged-in client met a 429-shaped rate limit on each of its
\* three attempts and raised; the client is still authenticated and no reauth was counted
C29_Witness ==
    /\ call.pc = "raised"
    /\ call.outcomes = <<PleaseWaitFewMinutes(Some(429)), PleaseWaitFewMinutes(Some(429)),
                         PleaseWaitFewMinutes(Some(429))>>
    /\ call.login_results = <<>>
    /\ is_authenticated
    /\ reauth_attempts = 0
    /\ reauth_failures = 0

\* C30: update_account_priority on an existing record sets last_checked to the current
\* time and media_count to the reported count (the stored count when none is reported);
\* with new posts it stores the reported latest post id and date and zeroes
\* consecutive_no_new_posts; without, it adds one to consecutive_no_new_posts and leaves
\* last_post_id and last_post_date as they were.
C30_UpdateBookkeeping ==
    [][(/\ last_call'.op = "update_account_priority"
        /\ last_call'.user_id \in DOMAIN account_activity)
       => LET old == account_activity[last_call'.user_id]
              new == account_activity'[last_call'.user_id]
              metadata == last_call'.metadata
          IN  /\ new.last_checked = now
              /\ new.media_count = IF metadata.media_count = None THEN old.media_count
                                   ELSE Val(metadata.media_count)
              /\ last_call'.has_new_posts =>
                     /\ new.last_post_id = metadata.latest_post_id
                     /\ new.last_post_date = metadata.latest_post_date
                     /\ new.consecutive_no_new_posts = 0
              /\ ~last_call'.has_new_posts =>
                     /\ new.consecutive_no_new_posts = old.consecutive_no_new_posts + 1
                     /\ new.last_post_id = old.last_post_id
                     /\ new.last_post_date = old.last_post_date]_vars

\* C30 witness: one tick after the record was created with one post, a check that
\* reported no media_count and no new post left media_count 1 and counted one miss
C30_Witness ==
    /\ last_call.op = "update_account_priority"
    /\ last_call.user_id \in DOMAIN account_activity
    /\ ~last_call.has_new_posts
    /\ last_call.metadata.media_count = None
    /\ account_activity[last_call.user_id].media_count = 1
    /\ account_activity[last_call.user_id].consecutive_no_new_posts = 1
    /\ account_activity[last_call.user_id].last_checked = TickHours
    /\ account_activity[last_call.user_id].last_post_date # None

----------------------------------------------------------------------------
(* created_at of an account_activity row *)

\* C31: created_at of a record is the time the record was first created: no step changes
\* the created_at of a record that exists before and after it.
C31_CreatedAtNeverChanges ==
    [][\A u \in DOMAIN account_activity :
           u \in DOMAIN account_activity' =>
               account_activity'[u].created_at = account_activity[u].created_at]_vars

----------------------------------------------------------------------------
(* The error raised when the retry budget is exhausted *)

\* C32: an executor call that raises because the retry budget is exhausted raises an error
\* that the wrapped operation produced in that call, the one of its last attempt.
C32_ExhaustedRaisesLastError ==
    BudgetExhausted =>
        /\ Val(call.error).raised_by = "func"
        /\ Val(call.error).attempt_no = call.attempts
        /\ Val(call.error).exception = call.outcomes[call.attempts]

----------------------------------------------------------------------------
(* The sleeps of the executor *)

\* the sleeps with the default base_backoff, by loop index
TransientSleeps == <<2, 4, 8>>
RateLimitSleeps == <<10, 20, 40>>

\* C33: an iteration with loop index k that meets a client/network error sleeps
\* base_backoff * 2^k seconds (2, 4, 8), one that meets a genuine rate-limit signal sleeps
\* base_backoff * 2^k * 5 seconds (10, 20, 40), also when it is the last iteration of the
\* call; an iteration that re-authenticates sleeps nothing.
C33_BackoffSchedule ==
    [][(/\ call.pc = "running"
        /\ Len(call'.outcomes) = Len(call.outcomes) + 1)
       => LET k == call.attempt
              outcome == call'.outcomes[Len(call'.outcomes)]
          IN  /\ outcome.type \in {"ClientError", "ConnectionError"} =>
                     /\ call'.sleeps = Append(call.sleeps, base_backoff * (2 ^ k))
                     /\ k < 3 => call'.sleeps[Len(call'.sleeps)] = TransientSleeps[k + 1]
              /\ GenuineRateLimit(outcome) =>
                     /\ call'.sleeps = Append(call.sleeps, base_backoff * (2 ^ k) * 5)
                     /\ k < 3 => call'.sleeps[Len(call'.sleeps)] = RateLimitSleeps[k + 1]
              /\ Len(call'.login_results) > Len(call.login_results) =>
                     call'.sleeps = call.sleeps]_vars

\* C33 witness: a call with max_retries 3 that met a network error, re-authenticated on
\* the second slot and met a rate-limit signal on the last one has slept 2 and then 40
\* seconds and has raised
C33_Witness ==
    /\ call.pc = "raised"
    /\ call.max_retries = 3
    /\ Len(call.outcomes) = 3
    /\ call.outcomes[1] = ConnectionError
    /\ call.outcomes[2] = LoginRequired
    /\ call.outcomes[3] = PleaseWaitFewMinutes(Some(429))
    /\ call.login_results = <<Returns>>
    /\ call.sleeps = <<2, 40>>

----------------------------------------------------------------------------
(* The bookkeeping of update_account_priority_after_check *)

\* C34: every update_account_priority_after_check on an existing record writes the tier
\* the story refinement computes from the record, the new counter and has_new_stories,
\* whatever the age of the record; with new stories it zeroes consecutive_no_new_stories,
\* stores the reported latest story id and date and adds the reported story count to
\* stories_fetched_count; without, it adds one to consecutive_no_new_stories and leaves
\* last_story_id, last_story_date and stories_fetched_count as they were.
C34_StoryUpdateBookkeeping ==
    [][(/\ last_call'.op = "update_account_priority_after_check"
        /\ last_call'.user_id \in DOMAIN story_activity)
       => LET old == story_activity[last_call'.user_id]
              new == story_activity'[last_call'.user_id]
              story_metadata == last_call'.story_metadata
              has_new_stories == last_call'.has_new_stories
          IN  /\ new.story_poll_priority =
                     story_refine_priority(old, new.consecutive_no_new_stories,
                                           has_new_stories, now)
              /\ has_new_stories =>
                     /\ new.consecutive_no_new_stories = 0
                     /\ new.last_story_id = story_metadata.latest_story_id
                     /\ new.last_story_date = story_metadata.latest_story_date
                     /\ new.stories_fetched_count =
                            old.stories_fetched_count + story_metadata.story_count
              /\ ~has_new_stories =>
                     /\ new.consecutive_no_new_stories =
                            old.consecutive_no_new_stories + 1
                     /\ new.last_story_id = old.last_story_id
                     /\ new.last_story_date = old.last_story_date
                     /\ new.stories_fetched_count = old.stories_fetched_count]_vars

\* C34 witness: the record created at time 0 is 12 hours old, one story was fetched by
\* an earlier check, and the fifth check in a row without new stories has moved the tier
\* from high to normal
C34_Witness ==
    /\ last_call.op = "update_account_priority_after_check"
    /\ last_call.user_id = "u1"
    /\ ~last_call.has_new_stories
    /\ now = TickHours
    /\ story_activity["u1"].stories_fetched_count = 1
    /\ story_activity["u1"].consecutive_no_new_stories = 5
    /\ story_activity["u1"].last_story_date # None
    /\ story_activity["u1"].story_poll_priority = "normal"

----------------------------------------------------------------------------
(* _sync_following_with_activity *)

\* C35: the sync step gives every account of the following list that has no record a
\* record with tier normal, consecutive_no_new_posts 0 and no last post, and leaves every
\* existing record as it was; no step at all removes a record.
C35_SyncAddsKeepsAll ==
    [][/\ DOMAIN account_activity \subseteq DOMAIN account_activity'
       /\ last_call'.op = "sync_following_with_activity" =>
              /\ DOMAIN account_activity' =
                     DOMAIN account_activity \cup last_call'.following_accounts
              /\ \A u \in DOMAIN account_activity :
                     account_activity'[u] = account_activity[u]
              /\ \A u \in last_call'.following_accounts \ DOMAIN account_activity :
                     /\ account_activity'[u].poll_priority = "normal"
                     /\ account_activity'[u].consecutive_no_new_posts = 0
                     /\ account_activity'[u].last_post_id = None
                     /\ account_activity'[u].last_post_date = None]_vars

\* C35 witness: a sync at 12 hours has added bob beside alice, whose record of the cold
\* start at time 0 is not of tier normal
C35_Witness ==
    /\ last_call.op = "sync_following_with_activity"
    /\ DOMAIN account_activity = {"u1", "u2"}
    /\ account_activity["u1"].created_at = 0
    /\ account_activity["u1"].poll_priority # "normal"
    /\ account_activity["u2"].created_at = TickHours
    /\ account_activity["u2"].poll_priority = "normal"

----------------------------------------------------------------------------
(* Overlapping runs of _smart_polling_sync: the scheduler's two jobs *)

\* a job fires: the run builds its own AccountPollingManager, whose constructor reads
\* cycle_number, and finds the initialized flag set.  The startup job fires once, the
\* interval job whenever it is not running
JobStart(j) ==
    /\ initialized
    /\ jobs[j].pc = "idle"
    /\ j = "instagram_sync_startup" => jobs[j].started = 0
    /\ current_cycle < MaxCycle
    /\ jobs' = [jobs EXCEPT ![j] = [pc |-> "created", current_cycle |-> current_cycle,
                                    started |-> IF @.started = 0 THEN 1 ELSE 2]]
    /\ last_call' = [op |-> "job_start", job |-> j]
    /\ UNCHANGED <<now, postVars, following_cache, storyVars, clientVars>>

\* the run's polling_manager.increment_cycle(): its own counter plus one, persisted
JobIncrementCycle(j) ==
    /\ jobs[j].pc = "created"
    /\ jobs' = [jobs EXCEPT ![j].pc = "incremented", ![j].current_cycle = @ + 1]
    /\ current_cycle' = jobs[j].current_cycle + 1
    /\ last_call' = [op |-> "job_increment_cycle", job |-> j]
    /\ UNCHANGED <<now, account_activity, initialized, runs, following_cache>>
    /\ UNCHANGED <<storyVars, clientVars>>

\* the run's polling_manager.get_accounts_to_poll_this_cycle(), without a cap
JobSelectAccounts(j, all_activities) ==
    /\ jobs[j].pc = "incremented"
    /\ jobs' = [jobs EXCEPT ![j].pc = "selected"]
    /\ last_call' = [op |-> "job_select_accounts", job |-> j,
                     cycle |-> jobs[j].current_cycle,
                     ret |-> get_accounts_to_poll_this_cycle(
                                 account_activity, jobs[j].current_cycle,
                                 all_activities, 0)]
    /\ UNCHANGED <<now, postVars, following_cache, storyVars, clientVars>>

\* the run returns
JobEnd(j) ==
    /\ jobs[j].pc = "selected"
    /\ jobs' = [jobs EXCEPT ![j].pc = "idle"]
    /\ last_call' = [op |-> "job_end", job |-> j]
    /\ UNCHANGED <<now, postVars, following_cache, storyVars, clientVars>>

DoJobStart == \E j \in JobIds : JobStart(j)

DoJobIncrementCycle == \E j \in JobIds : JobIncrementCycle(j)

DoJobSelectAccounts ==
    \E j \in JobIds :
        \E all_activities \in get_all_account_activity(account_activity) :
            JobSelectAccounts(j, all_activities)

DoJobEnd == \E j \in JobIds : JobEnd(j)

\* an initialized database at cycle 0 with one low and one dormant account
InitJobs ==
    /\ now = 0
    /\ account_activity = [u \in UserIds |->
                              Row(u, IF u = "u1" THEN "low" ELSE "dormant", None, 0, 0)]
    /\ initialized = TRUE
    /\ current_cycle = 0
    /\ runs = 0
    /\ story_activity = <<>>
    /\ story_cycle = 0
    /\ last_mute_refresh = None
    /\ following_cache = following_rows(UserIds, 0)
    /\ is_authenticated = FALSE
    /\ reauth_attempts = 0
    /\ reauth_successes = 0
    /\ reauth_failures = 0
    /\ call = no_call
    /\ jobs = no_jobs
    /\ last_call = [op |-> "init"]

NextJobs == DoJobStart \/ DoJobIncrementCycle \/ DoJobSelectAccounts \/ DoJobEnd

SpecJobs == InitJobs /\ [][NextJobs]_vars

\* the run of job j has executed increment_cycle and has not returned
PastIncrement(j) == jobs[j].pc \in {"incremented", "selected"}

\* C36: when the runs of the two jobs overlap, each has its own cycle number: once both
\* have executed increment_cycle their cycle numbers differ, and if these are the first
\* runs on a database at cycle 0 the persisted counter is 2.
C36_OverlappingRunsOwnCycle ==
    \A j, k \in JobIds :
        (j # k /\ PastIncrement(j) /\ PastIncrement(k)) =>
            /\ jobs[j].current_cycle # jobs[k].current_cycle
            /\ (jobs[j].started = 1 /\ jobs[k].started = 1) => current_cycle = 2

----------------------------------------------------------------------------
(* Steady-state runs without end: selection under a cap *)

\* every cadence divides cycle_period, so the selection of cycle n is the selection of
\* cycle n % cycle_period; the runs below keep the cycle number modulo cycle_period
cycle_period ==
    poll_high_every_n * poll_normal_every_n * poll_low_every_n * poll_dormant_every_n

\* MAX_ACCOUNTS_TO_FETCH one below the number of accounts tracked
starved_max_accounts == Cardinality(UserIds) - 1

\* a check at time t that succeeds and finds a post the record does not know: one of
\* today or of yesterday
NewPostOutcomes(last_post_date, t) ==
    {[user_info_raised |-> FALSE, media_count |-> 1, latest_raised |-> FALSE,
      latest_post_date |-> x, recent_raised |-> FALSE] :
         x \in {Some(t), Some(t - 24)} \ {last_post_date}}

\* one steady-state run of _smart_polling_sync with every check succeeding:
\* increment_cycle, the capped selection, then the poll loop over the selection
SteadyRun(all_activities, outcomes) ==
    /\ initialized
    /\ \E cycle \in {(current_cycle + 1) % cycle_period} :
          \E accounts_to_poll \in
                  {get_accounts_to_poll_this_cycle(account_activity, cycle,
                                                   all_activities, starved_max_accounts)} :
              \E polled \in {poll_accounts(account_activity, accounts_to_poll,
                                            account_activity, TRUE, outcomes, now)} :
                  /\ current_cycle' = cycle
                  /\ account_activity' = polled.table
                  /\ last_call' = [op |-> "steady_run", cycle |-> cycle,
                                   ret |-> accounts_to_poll]
    /\ UNCHANGED <<now, initialized, runs, storyVars, clientVars>>
    /\ UNCHANGED <<following_cache, jobs>>

DoSteadyRun ==
    \E all_activities \in get_all_account_activity(account_activity) :
        \E outcomes \in
                {f \in [DOMAIN account_activity ->
                           UNION {NewPostOutcomes(account_activity[u].last_post_date, now)
                                      : u \in DOMAIN account_activity}] :
                    \A u \in DOMAIN account_activity :
                        f[u] \in NewPostOutcomes(account_activity[u].last_post_date, now)} :
            SteadyRun(all_activities, outcomes)

\* the records a cold start at time 0 leaves, the accounts with no post or with one post
\* priority_normal_days old
InitStarve ==
    /\ now = 0
    /\ \E posts_by_account \in
              [{username_of[u] : u \in UserIds} ->
                  {{}, {0 - 24 * priority_normal_days}}] :
          account_activity =
              initialize_activity_profiles(<<>>, UserIds, posts_by_account, 0)
    /\ initialized = TRUE
    /\ current_cycle = 0
    /\ runs = 0
    /\ story_activity = <<>>
    /\ story_cycle = 0
    /\ last_mute_refresh = None
    /\ following_cache = following_rows(UserIds, 0)
    /\ is_authenticated = TRUE
    /\ reauth_attempts = 0
    /\ reauth_successes = 0
    /\ reauth_failures = 0
    /\ call = no_call
    /\ jobs = no_jobs
    /\ last_call = [op |-> "init"]

NextStarve == Tick \/ DoSteadyRun

\* the interval job fires for ever: runs never stop, whatever the clock does
SpecStarve == InitStarve /\ [][NextStarve]_vars /\ WF_vars(DoSteadyRun)

\* C37: under a cap of at least one account and with every check succeeding, every
\* tracked account is selected in infinitely many cycles.
C37_NoStarvation ==
    \A u \in UserIds :
        []<>(last_call.op = "steady_run" /\ u \in Range(last_call.ret))

----------------------------------------------------------------------------
(* Overrides under the cap *)

\* the tracked accounts whose username is in the override set
TrackedOverrides == {u \in DOMAIN account_activity :
                        account_activity[u].username \in priority_overrides}

\* C38: a selection under a cap that is at least the number of override accounts
\* returns every tracked override account, whatever its stored tier and last_checked.
C38_CapKeepsOverrides ==
    (/\ last_call.op = "get_accounts_to_poll_this_cycle"
     /\ last_call.max_accounts > 0
     /\ last_call.max_accounts >= Cardinality(priority_overrides))
    => TrackedOverrides \subseteq Range(last_call.ret)

----------------------------------------------------------------------------
(* The re-login after a failed session validation *)

\* C39: whenever validate_session returns false the client is unauthenticated, so the
\* login() the run calls next cannot return through its already-authenticated shortcut.
C39_FailedValidationForcesLogin ==
    (/\ last_call.op = "validate_session"
     /\ ~last_call.ret)
    => ~is_authenticated

====
